---- MODULE Spec2Model ----
(***************************************************************************)
(* A model of the optics library of src/src/index.ts: the three tagged     *)
(* optic variants (Lens, Prism, Iso), the primitive constructors prop,     *)
(* Prism().of and Iso, and the composition engine compose.                 *)
(*                                                                         *)
(* JavaScript values are tagged records; an optic is a record naming the   *)
(* constructor that built it and the operands its closures captured; get,  *)
(* set, to and from are interpreters that follow the closures' code and    *)
(* return the value together with the log of the calls made on the way.    *)
(* Where callers share objects, the same code runs on a heap of objects,   *)
(* so that a write to an object, and the identity of an object, can be     *)
(* told.                                                                   *)
(***************************************************************************)
EXTENDS Integers, Sequences, FiniteSets, TLC

(***************************************************************************)
(* Bounds                                                                  *)
(***************************************************************************)
\* numbers stored in sources and literals range over 0 .. MaxNum
MaxNum == 1
\* an optic is a chain of at most MaxChain primitive optics
MaxChain == 3

(***************************************************************************)
(* JavaScript values                                                       *)
(***************************************************************************)
UNDEF == [t |-> "undefined"]
NaN == [t |-> "NaN"]
\* a thrown TypeError, propagated to the caller
ERR == [t |-> "TypeError"]
Num(n) == [t |-> "number", n |-> n]
\* the number -0: `${-0}` is "0" and -0 + 1 is 1, but it is not the same value as 0
NegZero == [t |-> "number", n |-> 0, sign |-> "-"]
\* a string is its sequence of characters
Str(cs) == [t |-> "string", s |-> cs]
\* a plain object is a function from its own keys to values
Obj(f) == [t |-> "object", f |-> f]
EmptyFields == [k \in {} |-> UNDEF]
\* an array is the sequence of its elements, HOLE where an index has no
\* element, and its own properties that are not indices
HOLE == [t |-> "hole"]
ArrWith(es, p) == [t |-> "array", a |-> es, p |-> p]
Arr(es) == ArrWith(es, EmptyFields)
\* an updater function the caller passes to set; k is the constant of "constant"
Fn(name, k) == [t |-> "function", name |-> name, k |-> k]

\* typeof a === 'function'
IsFunction(a) == a.t = "function"

IdxKey == <<"0", "1", "2", "3", "4", "5", "6", "7", "8", "9", "10", "11",
            "12", "13", "14", "15", "16", "17", "18", "19">>

\* key is an array index (the model knows the indices 0..19)
IsIdx(key) == \E i \in 1..Len(IdxKey) : IdxKey[i] = key
\* the position of the index key in a sequence of elements
Idx(key) == CHOOSE i \in 1..Len(IdxKey) : IdxKey[i] = key

\* the own enumerable properties the spread {...s} copies
SpreadOf(s) ==
  CASE s.t = "object" -> s.f
    [] s.t = "string" ->
         [k \in {IdxKey[i] : i \in 1..Len(s.s)} |-> Str(<<s.s[Idx(k)]>>)]
    [] s.t = "array" ->
         LET idx == {IdxKey[i] : i \in {j \in 1..Len(s.a) : s.a[j] # HOLE}}
         IN [k \in idx \cup DOMAIN s.p |-> IF k \in idx THEN s.a[Idx(k)] ELSE s.p[k]]
    [] OTHER -> EmptyFields

\* { ...s, [key]: a }
SpreadWith(s, key, a) ==
  LET f == SpreadOf(s)
  IN Obj([k \in (DOMAIN f) \cup {key} |-> IF k = key THEN a ELSE f[k]])

\* the property names the model reads and writes besides "length": those of
\* the records in use and the array indices. No prototype (of objects, arrays,
\* strings, numbers or functions) has a property of one of these names, so a
\* value has such a property only as an own property
PlainKeys == {"name", "address", "city", "street", "owner", "employees", "value", "box"}
             \cup {IdxKey[i] : i \in 1..Len(IdxKey)}

\* s[key] where s has no own property key: undefined, for a key no prototype
\* has. For the names the prototypes define (toString, constructor, __proto__
\* and the like) the lookup finds a built-in, which is no value of the model:
\* the operator is not defined there
NotOwn(key) == CASE key \in PlainKeys \cup {"length"} -> UNDEF

\* s[key]; reading a property of undefined throws. Every updater function takes
\* one parameter, which is its length; the model does not know its name
GetProp(s, key) ==
  CASE s.t = "undefined" -> ERR
    [] s.t = "TypeError" -> ERR
    [] s.t = "object" -> IF key \in DOMAIN s.f THEN s.f[key] ELSE NotOwn(key)
    [] s.t = "array" ->
         IF key = "length" THEN Num(Len(s.a))
         ELSE IF IsIdx(key) /\ Idx(key) <= Len(s.a)
         THEN (IF s.a[Idx(key)] = HOLE THEN UNDEF ELSE s.a[Idx(key)])
         ELSE IF key \in DOMAIN s.p THEN s.p[key]
         ELSE NotOwn(key)
    [] s.t = "string" ->
         IF key = "length" THEN Num(Len(s.s))
         ELSE IF IsIdx(key) /\ Idx(key) <= Len(s.s) THEN Str(<<s.s[Idx(key)]>>)
         ELSE NotOwn(key)
    [] s.t = "function" ->
         IF key = "length" THEN Num(1)
         ELSE (CASE key # "name" -> NotOwn(key))
    [] s.t \in {"number", "NaN"} -> NotOwn(key)

DigitChar == <<"0", "1", "2", "3", "4", "5", "6", "7", "8", "9">>

RECURSIVE Digits(_)
\* the decimal digits of a natural number
Digits(n) == IF n < 10 THEN <<DigitChar[n + 1]>>
             ELSE Digits(n \div 10) \o <<DigitChar[(n % 10) + 1]>>

RECURSIVE ToStringChars(_)
RECURSIVE JoinChars(_, _)
\* Array.prototype.join(","), from element i on: undefined is the empty string
JoinChars(es, i) ==
  IF i > Len(es) THEN <<>>
  ELSE (IF es[i] \in {UNDEF, HOLE} THEN <<>> ELSE ToStringChars(es[i]))
       \o (IF i < Len(es) THEN <<",">> ELSE <<>>)
       \o JoinChars(es, i + 1)

\* String(x), the conversion a template literal and parseInt apply; an object
\* or array is converted by the toString it inherits (the operator is not
\* defined for one that has a toString, valueOf or join of its own)
ToStringChars(x) ==
  CASE x.t = "number" -> IF x.n < 0 THEN <<"-">> \o Digits(-x.n) ELSE Digits(x.n)
    [] x.t = "string" -> x.s
    [] x.t = "NaN" -> <<"N", "a", "N">>
    [] x.t = "undefined" -> <<"u", "n", "d", "e", "f", "i", "n", "e", "d">>
    [] x.t = "object" /\ DOMAIN x.f \cap {"toString", "valueOf"} = {} ->
         <<"[", "o", "b", "j", "e", "c", "t", " ",
           "O", "b", "j", "e", "c", "t", "]">>
    [] x.t = "array" /\ DOMAIN x.p \cap {"toString", "valueOf", "join"} = {} ->
         JoinChars(x.a, 1)

IsDigit(c) == \E d \in 1..10 : DigitChar[d] = c
DigitVal(c) == (CHOOSE d \in 1..10 : DigitChar[d] = c) - 1

RECURSIVE ParseDigits(_, _, _)
\* the value of the longest prefix of digits of cs[i..], or NaN when it is empty
ParseDigits(cs, i, acc) ==
  IF i <= Len(cs) /\ IsDigit(cs[i])
  THEN ParseDigits(cs, i + 1, IF acc = NaN THEN Num(DigitVal(cs[i]))
                                ELSE Num(acc.n * 10 + DigitVal(cs[i])))
  ELSE acc

\* the white space parseInt skips, of the ASCII characters: space, tab, line
\* feed, carriage return, form feed and vertical tab (U+000B, written as the
\* character itself); a string of the model holds ASCII characters only
WhiteSpace == {" ", "\t", "\n", "\r", "\f", ""}

RECURSIVE SkipWhiteSpace(_, _)
\* the first position from i on that holds no white space
SkipWhiteSpace(cs, i) ==
  IF i <= Len(cs) /\ cs[i] \in WhiteSpace THEN SkipWhiteSpace(cs, i + 1) ELSE i

\* the digits read after a sign: NaN when there were none, -0 for "-0"
SignedValue(neg, r) ==
  IF r = NaN THEN NaN
  ELSE IF neg THEN (IF r.n = 0 THEN NegZero ELSE Num(-r.n))
  ELSE r

\* an optional sign at position i of cs, then the longest prefix of digits
ParseAt(cs, i) ==
  SignedValue(i <= Len(cs) /\ cs[i] = "-",
              ParseDigits(cs, IF i <= Len(cs) /\ cs[i] \in {"-", "+"} THEN i + 1 ELSE i, NaN))

\* parseInt(x, 10): leading white space, an optional sign, the longest prefix of digits
ParseInt(x) == ParseAt(ToStringChars(x), SkipWhiteSpace(ToStringChars(x), 1))

\* x + 1
Plus1(x) ==
  CASE x.t = "number" -> Num(x.n + 1)
    [] x.t = "undefined" -> NaN
    [] x.t = "NaN" -> NaN
    [] x.t = "string" -> Str(x.s \o <<"1">>)
    [] x.t = "object" -> Str(ToStringChars(x) \o <<"1">>)
    [] x.t = "array" -> Str(ToStringChars(x) \o <<"1">>)

(***************************************************************************)
(* Results and call logs                                                   *)
(***************************************************************************)
\* one call of a caller-supplied function (or of the prop setter)
Call(fn, a, s) == [call |-> fn, a |-> a, s |-> s]
\* a result: the value returned (or ERR) and the calls made, in order
R(v, log) == [v |-> v, log |-> log]
\* r1 runs first; r2, which used r1.v, runs only if r1 did not throw
Then(r1, r2) == IF r1.v = ERR THEN r1 ELSE R(r2.v, r1.log \o r2.log)
\* the call c was made, and running it gave r
Logged(c, r) == R(r.v, <<c>> \o r.log)

(***************************************************************************)
(* The functions callers supply                                            *)
(***************************************************************************)
\* the updater functions passed to set:
\*   identity   (x) => x
\*   increment  (x) => x + 1
\*   constant   (_) => k
\*   withCity   (a) => ({ ...a, city: 0 })
\*   parseInc   (s) => (parseInt(s, 10) + 1).toString()
Apply(f, x) ==
  CASE f.name = "identity" -> x
    [] f.name = "increment" -> Plus1(x)
    [] f.name = "constant" -> f.k
    [] f.name = "withCity" -> SpreadWith(x, "city", Num(0))
    [] f.name = "parseInc" -> Str(ToStringChars(Plus1(ParseInt(x))))

ApplyR(f, x) == R(Apply(f, x), <<Call("updater", x, UNDEF)>>)

\* the getters handed to Prism().of:
\*   field  (p) => p[key]
UserGet(p, s) ==
  CASE p.get = "field" -> GetProp(s, p.key)

UserGetR(p, s) == R(UserGet(p, s), <<Call("prism.get", UNDEF, s)>>)

\* the setters handed to Prism().of:
\*   spread     (a) => (p) => ({ ...p, [key]: a })
\*   ifPresent  (a) => (p) => p[key] === undefined ? p : { ...p, [key]: a }
\*   full       (a) => (p) => ({ ...p, [key]: typeof a === 'function' ? a(p[key]) : a })
UserSet(p, a, s) ==
  CASE p.set = "spread" -> SpreadWith(s, p.key, a)
    [] p.set = "ifPresent" ->
         IF GetProp(s, p.key) = ERR THEN ERR
         ELSE IF GetProp(s, p.key) = UNDEF THEN s ELSE SpreadWith(s, p.key, a)
    [] p.set = "full" ->
         IF IsFunction(a)
         THEN IF GetProp(s, p.key) = ERR THEN ERR
              ELSE SpreadWith(s, p.key, Apply(a, GetProp(s, p.key)))
         ELSE SpreadWith(s, p.key, a)

UserSetR(p, a, s) == R(UserSet(p, a, s), <<Call("prism.set", a, s)>>)

\* the conversions handed to Iso:
\*   numberString  to: (n) => `${n}`,   from: (s) => parseInt(s, 10)
\*   unbox         to: (b) => b.value,  from: (v) => ({ value: v })
\*   box           to: (v) => ({ value: v }),  from: (b) => b.value
UserTo(i, s) ==
  CASE i = "numberString" -> Str(ToStringChars(s))
    [] i = "unbox" -> GetProp(s, "value")
    [] i = "box" -> Obj([k \in {"value"} |-> s])

UserFrom(i, a) ==
  CASE i = "numberString" -> ParseInt(a)
    [] i = "unbox" -> Obj([k \in {"value"} |-> a])
    [] i = "box" -> GetProp(a, "value")

UserToR(i, s) == R(UserTo(i, s), <<Call("iso.to", UNDEF, s)>>)
UserFromR(i, a) == R(UserFrom(i, a), <<Call("iso.from", a, UNDEF)>>)

(***************************************************************************)
(* Optics                                                                  *)
(***************************************************************************)
\* makeLens / prop(key)
prop(key) == [tag |-> "lens", mk |-> "prop", key |-> key]
\* Prism().of(prism), which returns makePrism of the normalized pair
of(prism) == [tag |-> "prism", mk |-> "of", prism |-> prism]
\* makeIso
makeIso(iso) == [tag |-> "iso", mk |-> "Iso", iso |-> iso]

\* mutant: no branch for Lens . Iso, which falls through to the general Prism
ComposeCase_NoLensIso(outer, inner) ==
  IF outer.tag = "lens" /\ inner.tag = "lens" THEN "LensLens"
  ELSE IF outer.tag = "iso" /\ inner.tag = "lens" THEN "IsoLens"
  ELSE IF outer.tag = "prism" /\ inner.tag = "iso" THEN "PrismIso"
  ELSE IF outer.tag = "iso" /\ inner.tag = "prism" THEN "IsoPrism"
  ELSE IF outer.tag = "iso" /\ inner.tag = "iso" THEN "IsoIso"
  ELSE "general"

\* the branch of compose that builds the result, chosen by the two tags
ComposeCase(outer, inner) ==
  IF outer.tag = "lens" /\ inner.tag = "lens" THEN "LensLens"
  ELSE IF outer.tag = "lens" /\ inner.tag = "iso" THEN "LensIso"
  ELSE IF outer.tag = "iso" /\ inner.tag = "lens" THEN "IsoLens"
  ELSE IF outer.tag = "prism" /\ inner.tag = "iso" THEN "PrismIso"
  ELSE IF outer.tag = "iso" /\ inner.tag = "prism" THEN "IsoPrism"
  ELSE IF outer.tag = "iso" /\ inner.tag = "iso" THEN "IsoIso"
  ELSE "general"

\* makeLens, makePrism or makeIso, as the branch calls it
CaseTag(c) ==
  CASE c \in {"LensLens", "LensIso", "IsoLens"} -> "lens"
    [] c \in {"PrismIso", "IsoPrism", "general"} -> "prism"
    [] c = "IsoIso" -> "iso"

compose(outer, inner) ==
  LET c == ComposeCase(outer, inner)
  IN [tag |-> CaseTag(c), mk |-> "compose", case |-> c,
      outer |-> outer, inner |-> inner]

RECURSIVE toR(_, _), fromR(_, _), getR(_, _), setR(_, _, _)

\* prop: (s) => s[key]
propGet(o, s) == R(GetProp(s, o.key), <<>>)

\* mutant: the spread comes last, so a field s already has wins over newA
propSet_SpreadLast(o, a, s) ==
  LET cur == R(GetProp(s, o.key), <<>>)
      newA == IF IsFunction(a) THEN Then(cur, ApplyR(a, cur.v)) ELSE R(a, <<>>)
      f == SpreadOf(s)
  IN Then(newA,
       R(Obj([k \in (DOMAIN f) \cup {o.key} |-> IF k \in DOMAIN f THEN f[k] ELSE newA.v]),
         <<Call("prop.set", newA.v, s)>>))

\* mutant: the updater is applied to the source, not to the focused field
propSet_UpdaterOnSource(o, a, s) ==
  IF IsFunction(a)
  THEN LET newA == ApplyR(a, s)
       IN Then(newA,
            R(SpreadWith(s, o.key, newA.v), <<Call("prop.set", newA.v, s)>>))
  ELSE R(SpreadWith(s, o.key, a), <<Call("prop.set", a, s)>>)

\* mutant: a literal only fills a field that holds nothing yet, { ...s, [key]: s[key] ?? newA }
propSet_KeepsDefined(o, a, s) ==
  IF IsFunction(a)
  THEN LET cur == R(GetProp(s, o.key), <<>>)
           newA == ApplyR(a, cur.v)
       IN Then(cur, Then(newA,
            R(SpreadWith(s, o.key, newA.v), <<Call("prop.set", newA.v, s)>>)))
  ELSE LET cur == R(GetProp(s, o.key), <<>>)
           newA == IF cur.v = UNDEF THEN a ELSE cur.v
       IN Then(cur, R(SpreadWith(s, o.key, newA), <<Call("prop.set", newA, s)>>))

\* mutant: a call-time check, the source is returned as it is when it lacks the key
propSet_SkipsMissingKey(o, a, s) ==
  LET cur == R(GetProp(s, o.key), <<>>)
      newA == IF IsFunction(a) THEN Then(cur, ApplyR(a, cur.v)) ELSE R(a, <<>>)
  IN IF cur.v = UNDEF /\ o.key \notin DOMAIN SpreadOf(s)
     THEN R(s, <<>>)
     ELSE Then(newA,
            R(SpreadWith(s, o.key, newA.v), <<Call("prop.set", newA.v, s)>>))

\* prop: (a) => (s) => { newA = typeof a === 'function' ? a(s[key]) : a;
\*                       return { ...s, [key]: newA } }
propSet(o, a, s) ==
  IF IsFunction(a)
  THEN LET cur == R(GetProp(s, o.key), <<>>)
           newA == ApplyR(a, cur.v)
       IN Then(cur, Then(newA,
            R(SpreadWith(s, o.key, newA.v), <<Call("prop.set", newA.v, s)>>)))
  ELSE R(SpreadWith(s, o.key, a), <<Call("prop.set", a, s)>>)

\* of: get is prism.get
ofGet(o, s) == UserGetR(o.prism, s)

\* mutant: set checks for absence first, whatever the update is
ofSet_LiteralChecksAbsence(o, a, s) ==
  LET current == UserGetR(o.prism, s)
  IN IF current.v = UNDEF THEN R(s, current.log)
     ELSE LET next == IF IsFunction(a) THEN ApplyR(a, current.v) ELSE R(a, <<>>)
          IN Then(current, Then(next, UserSetR(o.prism, next.v, s)))

\* mutant: the update is handed to prism.set as it came
ofSet_Unnormalized(o, a, s) == UserSetR(o.prism, a, s)

\* mutant: the function updater is applied without the absence check
ofSet_ApplyToAbsent(o, a, s) ==
  IF IsFunction(a)
  THEN LET current == UserGetR(o.prism, s)
           next == ApplyR(a, current.v)
       IN Then(current, Then(next, UserSetR(o.prism, next.v, s)))
  ELSE UserSetR(o.prism, a, s)

\* of: the normalized set
ofSet(o, a, s) ==
  IF IsFunction(a)
  THEN LET current == UserGetR(o.prism, s)
       IN IF current.v = UNDEF THEN R(s, current.log)
          ELSE LET next == ApplyR(a, current.v)
               IN Then(current, Then(next, UserSetR(o.prism, next.v, s)))
  ELSE UserSetR(o.prism, a, s)

\* Lens . Lens
LensLensGet(o, s) ==
  LET a == getR(o.outer, s)
  IN Then(a, getR(o.inner, a.v))

\* mutant: compose looks at b itself and hands inner.set the value f(inner.get(a))
LensLensSet_PreApplies(o, b, s) ==
  LET a == getR(o.outer, s)
      cur == getR(o.inner, a.v)
      nextB == IF IsFunction(b) THEN Then(cur, ApplyR(b, cur.v)) ELSE R(b, <<>>)
      newA == setR(o.inner, nextB.v, a.v)
  IN Then(a, Then(nextB, Then(newA, setR(o.outer, newA.v, s))))

\* mutant: set stops on an absent outer value as the general Prism case does
LensLensSet_AbsenceShortCircuit(o, b, s) ==
  LET a == getR(o.outer, s)
      newA == setR(o.inner, b, a.v)
  IN IF a.v = UNDEF THEN R(s, a.log)
     ELSE Then(a, Then(newA, setR(o.outer, newA.v, s)))

LensLensSet(o, b, s) ==
  LET a == getR(o.outer, s)
      newA == setR(o.inner, b, a.v)
  IN Then(a, Then(newA, setR(o.outer, newA.v, s)))

\* Lens . Iso
\* mutant: get returns the outer value without inner.to
LensIsoGet_SkipsTo(o, s) == getR(o.outer, s)

LensIsoGet(o, s) ==
  LET a == getR(o.outer, s)
  IN Then(a, toR(o.inner, a.v))

\* mutant: the next value is handed to outer.set without inner.from
LensIsoSet_SkipsFrom(o, b, s) ==
  LET currentA == getR(o.outer, s)
      curB == toR(o.inner, currentA.v)
      nextB == IF IsFunction(b) THEN Then(curB, ApplyR(b, curB.v)) ELSE R(b, <<>>)
  IN Then(currentA, Then(nextB, setR(o.outer, nextB.v, s)))

LensIsoSet(o, b, s) ==
  LET currentA == getR(o.outer, s)
      curB == toR(o.inner, currentA.v)
      nextB == IF IsFunction(b) THEN Then(curB, ApplyR(b, curB.v)) ELSE R(b, <<>>)
      newA == fromR(o.inner, nextB.v)
  IN Then(currentA, Then(nextB, Then(newA, setR(o.outer, newA.v, s))))

\* Iso . Lens
IsoLensGet(o, s) ==
  LET a == toR(o.outer, s)
  IN Then(a, getR(o.inner, a.v))

\* mutant: the new inner source is returned without outer.from
IsoLensSet_NoFrom(o, b, s) ==
  LET a == toR(o.outer, s)
      newA == setR(o.inner, b, a.v)
  IN Then(a, newA)

IsoLensSet(o, b, s) ==
  LET a == toR(o.outer, s)
      newA == setR(o.inner, b, a.v)
  IN Then(a, Then(newA, fromR(o.outer, newA.v)))

\* Prism . Iso
PrismIsoGet(o, s) ==
  LET outerValue == getR(o.outer, s)
  IN IF outerValue.v = UNDEF THEN outerValue
     ELSE Then(outerValue, toR(o.inner, outerValue.v))

\* mutant: the updater is called before the outer value is tested for absence
PrismIsoSet_UpdaterBeforeCheck(o, b, s) ==
  LET outerValue == getR(o.outer, s)
  IN IF IsFunction(b)
     THEN LET currentB == toR(o.inner, outerValue.v)
              nextB == ApplyR(b, currentB.v)
              newOuterValue == fromR(o.inner, nextB.v)
          IN IF outerValue.v = UNDEF
             THEN Then(outerValue, Then(currentB, R(s, nextB.log)))
             ELSE Then(outerValue, Then(currentB, Then(nextB,
                    Then(newOuterValue, setR(o.outer, newOuterValue.v, s)))))
     ELSE LET newOuterValue == fromR(o.inner, b)
          IN Then(outerValue, Then(newOuterValue,
               setR(o.outer, newOuterValue.v, s)))

\* mutant: a literal is handed to outer.set without inner.from
PrismIsoSet_LiteralSkipsFrom(o, b, s) ==
  LET outerValue == getR(o.outer, s)
  IN IF IsFunction(b)
     THEN IF outerValue.v = UNDEF THEN R(s, outerValue.log)
          ELSE LET currentB == toR(o.inner, outerValue.v)
                   nextB == ApplyR(b, currentB.v)
                   newOuterValue == fromR(o.inner, nextB.v)
               IN Then(outerValue, Then(currentB, Then(nextB,
                    Then(newOuterValue, setR(o.outer, newOuterValue.v, s)))))
     ELSE Then(outerValue, setR(o.outer, b, s))

\* mutant: a literal does not materialize an absent outer branch either
PrismIsoSet_NoMaterialize(o, b, s) ==
  LET outerValue == getR(o.outer, s)
  IN IF outerValue.v = UNDEF THEN R(s, outerValue.log)
     ELSE LET nextB == IF IsFunction(b)
                       THEN LET currentB == toR(o.inner, outerValue.v)
                            IN Then(currentB, ApplyR(b, currentB.v))
                       ELSE R(b, <<>>)
              newOuterValue == fromR(o.inner, nextB.v)
          IN Then(outerValue, Then(nextB, Then(newOuterValue,
               setR(o.outer, newOuterValue.v, s))))

\* mutant: no absence check, a function is applied to inner.to(undefined) and written
PrismIsoSet_NoAbsenceCheck(o, b, s) ==
  LET outerValue == getR(o.outer, s)
  IN IF IsFunction(b)
     THEN LET currentB == toR(o.inner, outerValue.v)
              nextB == ApplyR(b, currentB.v)
              newOuterValue == fromR(o.inner, nextB.v)
          IN Then(outerValue, Then(currentB, Then(nextB,
               Then(newOuterValue, setR(o.outer, newOuterValue.v, s)))))
     ELSE LET newOuterValue == fromR(o.inner, b)
          IN Then(outerValue, Then(newOuterValue,
               setR(o.outer, newOuterValue.v, s)))

PrismIsoSet(o, b, s) ==
  LET outerValue == getR(o.outer, s)
  IN IF IsFunction(b)
     THEN IF outerValue.v = UNDEF THEN R(s, outerValue.log)
          ELSE LET currentB == toR(o.inner, outerValue.v)
                   nextB == ApplyR(b, currentB.v)
                   newOuterValue == fromR(o.inner, nextB.v)
               IN Then(outerValue, Then(currentB, Then(nextB,
                    Then(newOuterValue, setR(o.outer, newOuterValue.v, s)))))
     ELSE LET newOuterValue == fromR(o.inner, b)
          IN Then(outerValue, Then(newOuterValue,
               setR(o.outer, newOuterValue.v, s)))

\* mutant: the inner get reads the source itself, outer.to is not applied
IsoPrismGet_SkipsTo(o, s) == getR(o.inner, s)

\* Iso . Prism
IsoPrismGet(o, s) ==
  LET a == toR(o.outer, s)
  IN Then(a, getR(o.inner, a.v))

\* mutant: set returns s itself when the inner branch is absent
IsoPrismSet_AbsenceCheck(o, b, s) ==
  LET a == toR(o.outer, s)
      cur == getR(o.inner, a.v)
      newA == setR(o.inner, b, a.v)
  IN IF a.v # ERR /\ cur.v = UNDEF THEN R(s, a.log \o cur.log)
     ELSE Then(a, Then(newA, fromR(o.outer, newA.v)))

IsoPrismSet(o, b, s) ==
  LET a == toR(o.outer, s)
      newA == setR(o.inner, b, a.v)
  IN Then(a, Then(newA, fromR(o.outer, newA.v)))

\* Iso . Iso
IsoIsoTo(o, s) ==
  LET a == toR(o.outer, s)
  IN Then(a, toR(o.inner, a.v))

\* mutant: from skips the inner conversion
IsoIsoFrom_SkipsInner(o, b) == fromR(o.outer, b)

IsoIsoFrom(o, b) ==
  LET a == fromR(o.inner, b)
  IN Then(a, fromR(o.outer, a.v))

\* mutant: get goes on to the inner optic whatever the outer value is
generalGet_NoAbsenceCheck(o, s) ==
  LET outerValue == getR(o.outer, s)
  IN Then(outerValue, getR(o.inner, outerValue.v))

\* otherwise (Lens . Prism, Prism . Lens, Prism . Prism): the general Prism
generalGet(o, s) ==
  LET outerValue == getR(o.outer, s)
  IN IF outerValue.v = UNDEF THEN outerValue
     ELSE Then(outerValue, getR(o.inner, outerValue.v))

\* mutant: outer.set is skipped when inner.set returned the outer value as it was
generalSet_SkipsUnchanged(o, b, s) ==
  LET outerValue == getR(o.outer, s)
  IN IF outerValue.v = UNDEF THEN R(s, outerValue.log)
     ELSE LET newOuterValue == setR(o.inner, b, outerValue.v)
          IN IF newOuterValue.v = outerValue.v
             THEN Then(outerValue, R(s, newOuterValue.log))
             ELSE Then(outerValue, Then(newOuterValue,
                    setR(o.outer, newOuterValue.v, s)))

\* mutant: the value of a Lens outer is always treated as present
generalSet_LensOuterAlwaysPresent(o, b, s) ==
  LET outerValue == getR(o.outer, s)
  IN IF outerValue.v = UNDEF /\ o.outer.tag = "prism" THEN R(s, outerValue.log)
     ELSE LET newOuterValue == setR(o.inner, b, outerValue.v)
          IN Then(outerValue, Then(newOuterValue,
               setR(o.outer, newOuterValue.v, s)))

\* mutant: a function updater is applied to the outer value itself
generalSet_UpdaterOnOuterValue(o, b, s) ==
  LET outerValue == getR(o.outer, s)
  IN IF outerValue.v = UNDEF THEN R(s, outerValue.log)
     ELSE LET newOuterValue == IF IsFunction(b) THEN ApplyR(b, outerValue.v)
                               ELSE setR(o.inner, b, outerValue.v)
          IN Then(outerValue, Then(newOuterValue,
               setR(o.outer, newOuterValue.v, s)))

\* mutant: only a function updater is stopped by an absent outer branch
generalSet_LiteralGoesOn(o, b, s) ==
  LET outerValue == getR(o.outer, s)
  IN IF outerValue.v = UNDEF /\ IsFunction(b) THEN R(s, outerValue.log)
     ELSE LET newOuterValue == setR(o.inner, b, outerValue.v)
          IN Then(outerValue, Then(newOuterValue,
               setR(o.outer, newOuterValue.v, s)))

generalSet(o, b, s) ==
  LET outerValue == getR(o.outer, s)
  IN IF outerValue.v = UNDEF THEN R(s, outerValue.log)
     ELSE LET newOuterValue == setR(o.inner, b, outerValue.v)
          IN Then(outerValue, Then(newOuterValue,
               setR(o.outer, newOuterValue.v, s)))

\* optic.to(s) of an Iso
toR(o, s) == IF o.mk = "Iso" THEN UserToR(o.iso, s) ELSE IsoIsoTo(o, s)

\* optic.from(b) of an Iso
fromR(o, b) == IF o.mk = "Iso" THEN UserFromR(o.iso, b) ELSE IsoIsoFrom(o, b)

\* optic.get(s) of a Lens or Prism
getR(o, s) ==
  CASE o.mk = "prop" -> propGet(o, s)
    [] o.mk = "of" -> ofGet(o, s)
    [] o.mk = "compose" /\ o.case = "LensLens" -> LensLensGet(o, s)
    [] o.mk = "compose" /\ o.case = "LensIso" -> LensIsoGet(o, s)
    [] o.mk = "compose" /\ o.case = "IsoLens" -> IsoLensGet(o, s)
    [] o.mk = "compose" /\ o.case = "PrismIso" -> PrismIsoGet(o, s)
    [] o.mk = "compose" /\ o.case = "IsoPrism" -> IsoPrismGet(o, s)
    [] o.mk = "compose" /\ o.case = "general" -> generalGet(o, s)

\* the call o.set(b)(s): the optic, the update it is handed and the source
SetCall(o, b, s) == [call |-> "set", a |-> b, s |-> s, o |-> o]

\* optic.set(b)(s) of a Lens or Prism
setR(o, b, s) ==
  Logged(SetCall(o, b, s),
    CASE o.mk = "prop" -> propSet(o, b, s)
      [] o.mk = "of" -> ofSet(o, b, s)
      [] o.mk = "compose" /\ o.case = "LensLens" -> LensLensSet(o, b, s)
      [] o.mk = "compose" /\ o.case = "LensIso" -> LensIsoSet(o, b, s)
      [] o.mk = "compose" /\ o.case = "IsoLens" -> IsoLensSet(o, b, s)
      [] o.mk = "compose" /\ o.case = "PrismIso" -> PrismIsoSet(o, b, s)
      [] o.mk = "compose" /\ o.case = "IsoPrism" -> IsoPrismSet(o, b, s)
      [] o.mk = "compose" /\ o.case = "general" -> generalSet(o, b, s))

(***************************************************************************)
(* The static types of the callers (erased at run time)                    *)
(*   Company = { owner?: Person }                                          *)
(*   Person  = { name: number; address?: Address }                         *)
(*   Address = { street: number; city?: number }                           *)
(*   Box<T>  = { value: T }                                                *)
(*   Holder  = { box?: Box<Person> }                                       *)
(*   Org     = { name: number; employees: Employees }                      *)
(*   Employees = Array<number>, with prop(0) and prop(1) as its lenses     *)
(***************************************************************************)
FieldT(T, key) ==
  CASE T = "Company" /\ key = "owner" -> "Person"
    [] T = "Person" /\ key = "name" -> "number"
    [] T = "Person" /\ key = "address" -> "Address"
    [] T = "Address" /\ key = "street" -> "number"
    [] T = "Address" /\ key = "city" -> "number"
    [] T = "BoxPerson" /\ key = "value" -> "Person"
    [] T = "BoxNumber" /\ key = "value" -> "number"
    [] T = "Org" /\ key = "name" -> "number"
    [] T = "Org" /\ key = "employees" -> "Employees"
    [] T = "Employees" /\ key \in {"0", "1"} -> "number"
    [] T = "Holder" /\ key = "box" -> "BoxPerson"

FieldPrism(key, set) == of([get |-> "field", set |-> set, key |-> key])

\* the primitive optics a caller can build on source type T
Prims(T) ==
  CASE T = "Company" -> {prop("owner"), FieldPrism("owner", "spread")}
    [] T = "Person" ->
         {prop("name"), prop("address"), FieldPrism("address", "spread"),
          FieldPrism("address", "ifPresent"), FieldPrism("address", "full")}
    [] T = "Address" ->
         {prop("street"), prop("city"), FieldPrism("city", "spread"),
          FieldPrism("city", "full")}
    [] T = "Org" -> {prop("employees")}
    [] T = "Employees" -> {prop("0"), prop("1")}
    [] T = "number" -> {makeIso("numberString"), makeIso("box")}
    [] T = "Holder" -> {prop("box"), FieldPrism("box", "spread")}
    [] T \in {"BoxPerson", "BoxNumber"} -> {makeIso("unbox")}
    [] OTHER -> {}

RECURSIVE Target(_, _)
\* the target type of optic o built on source type T
Target(o, T) ==
  CASE o.mk = "prop" -> FieldT(T, o.key)
    [] o.mk = "of" -> FieldT(T, o.prism.key)
    [] o.mk = "Iso" /\ o.iso = "numberString" -> "string"
    [] o.mk = "Iso" /\ o.iso = "unbox" -> FieldT(T, "value")
    [] o.mk = "Iso" /\ o.iso = "box" /\ T = "number" -> "BoxNumber"
    [] o.mk = "compose" -> Target(o.inner, Target(o.outer, T))

RECURSIVE ChainLen(_)
\* the number of primitive optics in o
ChainLen(o) == IF o.mk = "compose" THEN ChainLen(o.outer) + ChainLen(o.inner) ELSE 1

\* the optics a caller can compose under an optic focused on type T:
\* a primitive, or two primitives composed beforehand
Operands(T) ==
  Prims(T) \cup UNION {{compose(a, b) : b \in Prims(Target(a, T))} : a \in Prims(T)}

\* the values of each type the callers start from and pass as literals
Numbers == {Num(n) : n \in 0..MaxNum}
Addresses ==
  {Obj([k \in {"street"} |-> Num(0)])}
  \cup {Obj([k \in {"street", "city"} |-> IF k = "street" THEN Num(0) ELSE c]) : c \in Numbers}
\* a person is built with no address, or with an address without a city or
\* with the city 0
Persons ==
  {Obj([k \in {"name"} |-> Num(0)])}
  \cup {Obj([k \in {"name", "address"} |-> IF k = "name" THEN Num(0) ELSE a]) :
          a \in {b \in Addresses : "city" \in DOMAIN b.f => b.f["city"] = Num(0)}}
Companies == {Obj(EmptyFields)} \cup {Obj([k \in {"owner"} |-> p]) : p \in Persons}
Strings == {Str(ToStringChars(n)) : n \in Numbers} \cup {Str(<<"0", "1">>), Str(<<"x">>)}
Box(vs) == {Obj([k \in {"value"} |-> v]) : v \in vs}
Employees == {Arr(<<n>>) : n \in Numbers} \cup {Arr(<<n, Num(0)>>) : n \in Numbers}
Orgs == {Obj([k \in {"name", "employees"} |-> IF k = "name" THEN Num(0) ELSE e]) : e \in Employees}

Sources(T) ==
  CASE T = "Company" -> Companies
    [] T = "Person" -> Persons
    [] T = "Address" -> Addresses
    [] T = "number" -> Numbers
    [] T = "string" -> Strings
    [] T = "BoxPerson" ->
         Box(Persons \cup {UNDEF}) \cup {Obj([k \in {"value", "name"} |-> Num(0)])}
    [] T = "BoxNumber" -> Box(Numbers \cup {UNDEF})
    [] T = "Holder" ->
         {Obj(EmptyFields)}
         \cup {Obj([k \in {"box"} |-> b]) : b \in Box({Obj([k \in {"name"} |-> Num(0)]), UNDEF})}
    [] T = "Org" -> Orgs
    [] T = "Employees" -> Employees

SourceTypes ==
  {"Company", "Person", "Address", "number", "BoxPerson", "BoxNumber",
   "Org", "Employees", "Holder"}

\* the literal values passed to set and from; an optional field takes
\* undefined, and so does what a box holds, but a box itself is never undefined
Literals(T) ==
  Sources(T) \cup (IF T \in {"BoxPerson", "BoxNumber"} THEN {} ELSE {UNDEF})

\* the value the constant updater returns on a focus of type T
Default(T) ==
  CASE T = "number" -> Num(0)
    [] T = "string" -> Str(<<"0">>)
    [] T = "Address" -> Obj([k \in {"street"} |-> Num(0)])
    [] T = "Person" -> Obj([k \in {"name"} |-> Num(0)])
    [] T = "Employees" -> Arr(<<Num(0), Num(0)>>)
    [] T = "BoxNumber" -> Obj([k \in {"value"} |-> Num(0)])
    [] T = "BoxPerson" -> Obj([k \in {"value"} |-> Obj([j \in {"name"} |-> Num(0)])])

\* the updater functions passed to set on a focus of type T
Updaters(T) ==
  {Fn("identity", UNDEF), Fn("constant", Default(T))}
  \cup (IF T \in {"number", "string"} THEN {Fn("increment", UNDEF)} ELSE {})
  \cup (IF T = "string" THEN {Fn("parseInc", UNDEF)} ELSE {})
  \cup (IF T = "Address" THEN {Fn("withCity", UNDEF)} ELSE {})

RECURSIVE NumsOf(_)
\* the numbers stored in a value
NumsOf(v) ==
  CASE v.t = "number" -> {v.n}
    [] v.t = "object" -> UNION {NumsOf(v.f[k]) : k \in DOMAIN v.f}
    [] v.t = "array" -> UNION ({NumsOf(v.a[i]) : i \in 1..Len(v.a)}
                                \cup {NumsOf(v.p[k]) : k \in DOMAIN v.p})
    [] OTHER -> {}

\* the sources the model follows: numbers stay within the bound
Bounded(v) == \A n \in NumsOf(v) : n \in 0..MaxNum

(***************************************************************************)
(* Objects in memory                                                       *)
(*                                                                         *)
(* Where callers share objects, an object or array is a cell of the heap,  *)
(* a sequence of cells; a property of a cell holds a slot, which is a      *)
(* primitive value or a reference to a cell. Two slots are the same        *)
(* object exactly if they are the same reference.                          *)
(***************************************************************************)
Ref(n) == [t |-> "ref", at |-> n]
\* a result: the slot returned (or ERR) and the heap afterwards
HR(v, h) == [v |-> v, h |-> h]
\* the object a slot refers to, or the primitive it is
Cell(x, h) == IF x.t = "ref" THEN h[x.at] ELSE x

RECURSIVE Deref(_, _)
\* the value a slot or cell stands for: every reference replaced by what it
\* refers to
Deref(x, h) ==
  CASE x.t = "ref" -> Deref(h[x.at], h)
    [] x.t = "object" -> Obj([k \in DOMAIN x.f |-> Deref(x.f[k], h)])
    [] x.t = "array" ->
         ArrWith([i \in 1..Len(x.a) |-> Deref(x.a[i], h)],
                 [k \in DOMAIN x.p |-> Deref(x.p[k], h)])
    [] OTHER -> x

\* a new object: the cell c is added to the heap
Alloc(c, h) == HR(Ref(Len(h) + 1), Append(h, c))

RECURSIVE SeqOf(_)
\* the elements of a set, one after the other
SeqOf(S) ==
  IF S = {} THEN <<>>
  ELSE LET k == CHOOSE j \in S : TRUE IN <<k>> \o SeqOf(S \ {k})

RECURSIVE Store(_, _), StoreAll(_, _, _), StoreRest(_, _, _)
\* the values vs built one after the other: their slots, after those of done
StoreAll(vs, done, h) ==
  IF vs = <<>> THEN HR(done, h) ELSE StoreRest(Tail(vs), done, Store(Head(vs), h))

StoreRest(vs, done, r) == StoreAll(vs, Append(done, r.v), r.h)

\* the object with the keys ks, bound to the slots r.v in this order
StoreObj(ks, r) ==
  Alloc(Obj([k \in {ks[i] : i \in 1..Len(ks)} |->
               r.v[CHOOSE i \in 1..Len(ks) : ks[i] = k]]), r.h)

\* the array with the elements es and the properties ks, bound to the slots r.v
StoreArr(es, ks, r) ==
  Alloc(ArrWith(es, [k \in {ks[i] : i \in 1..Len(ks)} |->
                       r.v[CHOOSE i \in 1..Len(ks) : ks[i] = k]]), r.h)

\* the properties ks of the array v are built after its elements es
StoreProps(v, ks, es) ==
  StoreArr(es.v, ks, StoreAll([i \in 1..Len(ks) |-> v.p[ks[i]]], <<>>, es.h))

\* an object or array literal evaluated: the value v built of new objects,
\* the nested ones first; a primitive is its own slot
Store(v, h) ==
  CASE v.t = "object" ->
         StoreObj(SeqOf(DOMAIN v.f),
                  StoreAll([i \in 1..Cardinality(DOMAIN v.f) |-> v.f[SeqOf(DOMAIN v.f)[i]]],
                           <<>>, h))
    [] v.t = "array" -> StoreProps(v, SeqOf(DOMAIN v.p), StoreAll(v.a, <<>>, h))
    [] OTHER -> HR(v, h)

\* the cells the slots of the cell c refer to
RefsOf(c) ==
  CASE c.t = "object" -> {c.f[k].at : k \in {j \in DOMAIN c.f : c.f[j].t = "ref"}}
    [] c.t = "array" ->
         {c.a[i].at : i \in {j \in 1..Len(c.a) : c.a[j].t = "ref"}}
         \cup {c.p[k].at : k \in {j \in DOMAIN c.p : c.p[j].t = "ref"}}

RECURSIVE Reach(_, _)
\* the cells reachable from the cells A
Reach(A, h) ==
  LET B == A \cup UNION {RefsOf(h[a]) : a \in A}
  IN IF B = A THEN A ELSE Reach(B, h)

\* the cells reachable from the slots xs: the objects still in use
Live(xs, h) == Reach({x.at : x \in {y \in xs : y.t = "ref"}}, h)

\* where the cell a is once the heap keeps the cells A only, in their order
Rank(a, A) == Cardinality({b \in A : b <= a})
Moved(x, A) == IF x.t = "ref" THEN Ref(Rank(x.at, A)) ELSE x
MovedCell(c, A) ==
  CASE c.t = "object" -> Obj([k \in DOMAIN c.f |-> Moved(c.f[k], A)])
    [] c.t = "array" ->
         ArrWith([i \in 1..Len(c.a) |-> Moved(c.a[i], A)],
                 [k \in DOMAIN c.p |-> Moved(c.p[k], A)])

\* garbage collection: the heap h without the cells no longer in use
Compact(h, A) ==
  [i \in 1..Cardinality(A) |-> MovedCell(h[CHOOSE a \in A : Rank(a, A) = i], A)]

(***************************************************************************)
(* The library on objects in memory: each function follows the same code   *)
(* as its namesake above, takes the heap besides its arguments, and        *)
(* returns a slot and the heap with the objects it has built               *)
(***************************************************************************)
\* an updater function called on the slot x (see Apply): identity returns its
\* argument, constant evaluates its literal, withCity spreads its argument
\* into a new object, increment and parseInc compute a primitive
ApplyH(f, x, h) ==
  CASE f.name = "identity" -> HR(x, h)
    [] f.name = "constant" -> Store(f.k, h)
    [] f.name = "withCity" -> Alloc(SpreadWith(Cell(x, h), "city", Num(0)), h)
    [] f.name \in {"increment", "parseInc"} -> HR(Apply(f, Deref(x, h)), h)

\* f is called on what the step before returned, unless that step threw
ApplyAfter(f, r) == IF r.v = ERR THEN r ELSE ApplyH(f, r.v, r.h)

\* { ...s, [key]: r.v } as a new object, unless the step that computed r threw
SpreadAfter(s, key, r) ==
  IF r.v = ERR THEN r ELSE Alloc(SpreadWith(Cell(s, r.h), key, r.v), r.h)

\* the getters handed to Prism().of (see UserGet)
UserGetH(p, s, h) ==
  CASE p.get = "field" -> HR(GetProp(Cell(s, h), p.key), h)

\* the setters handed to Prism().of (see UserSet)
UserSetH(p, a, s, h) ==
  CASE p.set = "spread" -> SpreadAfter(s, p.key, HR(a, h))
    [] p.set = "ifPresent" ->
         IF GetProp(Cell(s, h), p.key) = ERR THEN HR(ERR, h)
         ELSE IF GetProp(Cell(s, h), p.key) = UNDEF THEN HR(s, h)
         ELSE SpreadAfter(s, p.key, HR(a, h))
    [] p.set = "full" ->
         IF IsFunction(a)
         THEN IF GetProp(Cell(s, h), p.key) = ERR THEN HR(ERR, h)
              ELSE SpreadAfter(s, p.key, ApplyH(a, GetProp(Cell(s, h), p.key), h))
         ELSE SpreadAfter(s, p.key, HR(a, h))

\* the conversions handed to Iso (see UserTo and UserFrom)
UserToH(i, s, h) ==
  CASE i = "numberString" -> HR(UserTo(i, Deref(s, h)), h)
    [] i = "unbox" -> HR(GetProp(Cell(s, h), "value"), h)
    [] i = "box" -> Alloc(Obj([k \in {"value"} |-> s]), h)

UserFromH(i, a, h) ==
  CASE i = "numberString" -> HR(UserFrom(i, Deref(a, h)), h)
    [] i = "unbox" -> Alloc(Obj([k \in {"value"} |-> a]), h)
    [] i = "box" -> HR(GetProp(Cell(a, h), "value"), h)

RECURSIVE toH(_, _, _), fromH(_, _, _), getH(_, _, _), setH(_, _, _, _)

\* the next call is made on, or with, what the step before returned, unless
\* that step threw
GetAfter(o, r) == IF r.v = ERR THEN r ELSE getH(o, r.v, r.h)
ToAfter(o, r) == IF r.v = ERR THEN r ELSE toH(o, r.v, r.h)
FromAfter(o, r) == IF r.v = ERR THEN r ELSE fromH(o, r.v, r.h)
\* o.set(b)(r.v)
SetOn(o, b, r) == IF r.v = ERR THEN r ELSE setH(o, b, r.v, r.h)
\* o.set(r.v)(s)
SetAfter(o, s, r) == IF r.v = ERR THEN r ELSE setH(o, r.v, s, r.h)

\* prop: (s) => s[key]
propGetH(o, s, h) == HR(GetProp(Cell(s, h), o.key), h)

\* prop: newA = typeof a === 'function' ? a(s[key]) : a
NewA(o, a, s, h) ==
  IF IsFunction(a)
  THEN IF GetProp(Cell(s, h), o.key) = ERR THEN HR(ERR, h)
       ELSE ApplyH(a, GetProp(Cell(s, h), o.key), h)
  ELSE HR(a, h)

\* s[key] = r.v on the object s, which is returned
WriteAfter(s, key, r) ==
  IF r.v = ERR THEN r
  ELSE HR(s, [r.h EXCEPT ![s.at] = SpreadWith(r.h[s.at], key, r.v)])

\* mutant: on an object, newA is assigned to the source, s[key] = newA, and
\* the source is returned
propSetH_AssignsInPlace(o, a, s, h) ==
  IF s.t = "ref" /\ Cell(s, h).t = "object"
  THEN WriteAfter(s, o.key, NewA(o, a, s, h))
  ELSE SpreadAfter(s, o.key, NewA(o, a, s, h))

\* a deep copy of { ...s, [key]: r.v }
CloneAfter(s, key, r) ==
  IF r.v = ERR THEN r
  ELSE Store(SpreadWith(Deref(s, r.h), key, Deref(r.v, r.h)), r.h)

\* mutant: the result is a deep copy, structuredClone({ ...s, [key]: newA })
propSetH_ClonesSiblings(o, a, s, h) == CloneAfter(s, o.key, NewA(o, a, s, h))

\* prop: (a) => (s) => { newA = typeof a === 'function' ? a(s[key]) : a;
\*                       return { ...s, [key]: newA } }
propSetH(o, a, s, h) == SpreadAfter(s, o.key, NewA(o, a, s, h))

\* Prism().of: get is the getter handed in
ofGetH(o, s, h) == UserGetH(o.prism, s, h)

\* prism.set(r.v)(s)
UserSetAfter(p, s, r) == IF r.v = ERR THEN r ELSE UserSetH(p, r.v, s, r.h)

\* Prism().of: the normalized set
ofSetH(o, a, s, h) ==
  IF IsFunction(a)
  THEN IF UserGetH(o.prism, s, h).v = ERR THEN HR(ERR, h)
       ELSE IF UserGetH(o.prism, s, h).v = UNDEF THEN HR(s, h)
       ELSE UserSetAfter(o.prism, s, ApplyH(a, UserGetH(o.prism, s, h).v, h))
  ELSE UserSetH(o.prism, a, s, h)

\* Lens . Lens
LensLensGetH(o, s, h) == GetAfter(o.inner, getH(o.outer, s, h))
LensLensSetH(o, b, s, h) ==
  SetAfter(o.outer, s, SetOn(o.inner, b, getH(o.outer, s, h)))

\* nextB = typeof b === 'function' ? b(inner.to(r.v)) : b
NextBAfter(o, b, r) ==
  IF r.v = ERR THEN r
  ELSE IF IsFunction(b) THEN ApplyAfter(b, toH(o.inner, r.v, r.h))
  ELSE HR(b, r.h)

\* Lens . Iso
LensIsoGetH(o, s, h) == ToAfter(o.inner, getH(o.outer, s, h))
LensIsoSetH(o, b, s, h) ==
  SetAfter(o.outer, s, FromAfter(o.inner, NextBAfter(o, b, getH(o.outer, s, h))))

\* Iso . Lens
IsoLensGetH(o, s, h) == GetAfter(o.inner, toH(o.outer, s, h))
IsoLensSetH(o, b, s, h) == FromAfter(o.outer, SetOn(o.inner, b, toH(o.outer, s, h)))

\* Prism . Iso: what get and set do with outerValue
PrismIsoGot(o, outerValue) ==
  IF outerValue.v = UNDEF THEN outerValue ELSE ToAfter(o.inner, outerValue)

PrismIsoGetH(o, s, h) == PrismIsoGot(o, getH(o.outer, s, h))

PrismIsoWith(o, b, s, outerValue) ==
  IF outerValue.v = ERR THEN outerValue
  ELSE IF IsFunction(b)
  THEN IF outerValue.v = UNDEF THEN HR(s, outerValue.h)
       ELSE SetAfter(o.outer, s, FromAfter(o.inner, NextBAfter(o, b, outerValue)))
  ELSE SetAfter(o.outer, s, fromH(o.inner, b, outerValue.h))

PrismIsoSetH(o, b, s, h) == PrismIsoWith(o, b, s, getH(o.outer, s, h))

\* Iso . Prism
IsoPrismGetH(o, s, h) == GetAfter(o.inner, toH(o.outer, s, h))
IsoPrismSetH(o, b, s, h) == FromAfter(o.outer, SetOn(o.inner, b, toH(o.outer, s, h)))

\* Iso . Iso
IsoIsoToH(o, s, h) == ToAfter(o.inner, toH(o.outer, s, h))
IsoIsoFromH(o, b, h) == FromAfter(o.outer, fromH(o.inner, b, h))

\* the general case: what get and set do with outerValue
generalGot(o, outerValue) ==
  IF outerValue.v = UNDEF THEN outerValue ELSE GetAfter(o.inner, outerValue)

generalGetH(o, s, h) == generalGot(o, getH(o.outer, s, h))

generalWith(o, b, s, outerValue) ==
  IF outerValue.v = ERR THEN outerValue
  ELSE IF outerValue.v = UNDEF THEN HR(s, outerValue.h)
  ELSE SetAfter(o.outer, s, SetOn(o.inner, b, outerValue))

generalSetH(o, b, s, h) == generalWith(o, b, s, getH(o.outer, s, h))

\* optic.to(s) and optic.from(b) of an Iso
toH(o, s, h) == IF o.mk = "Iso" THEN UserToH(o.iso, s, h) ELSE IsoIsoToH(o, s, h)
fromH(o, b, h) == IF o.mk = "Iso" THEN UserFromH(o.iso, b, h) ELSE IsoIsoFromH(o, b, h)

\* optic.get(s) of a Lens or Prism
getH(o, s, h) ==
  CASE o.mk = "prop" -> propGetH(o, s, h)
    [] o.mk = "of" -> ofGetH(o, s, h)
    [] o.mk = "compose" /\ o.case = "LensLens" -> LensLensGetH(o, s, h)
    [] o.mk = "compose" /\ o.case = "LensIso" -> LensIsoGetH(o, s, h)
    [] o.mk = "compose" /\ o.case = "IsoLens" -> IsoLensGetH(o, s, h)
    [] o.mk = "compose" /\ o.case = "PrismIso" -> PrismIsoGetH(o, s, h)
    [] o.mk = "compose" /\ o.case = "IsoPrism" -> IsoPrismGetH(o, s, h)
    [] o.mk = "compose" /\ o.case = "general" -> generalGetH(o, s, h)

\* optic.set(b)(s) of a Lens or Prism
setH(o, b, s, h) ==
  CASE o.mk = "prop" -> propSetH(o, b, s, h)
    [] o.mk = "of" -> ofSetH(o, b, s, h)
    [] o.mk = "compose" /\ o.case = "LensLens" -> LensLensSetH(o, b, s, h)
    [] o.mk = "compose" /\ o.case = "LensIso" -> LensIsoSetH(o, b, s, h)
    [] o.mk = "compose" /\ o.case = "IsoLens" -> IsoLensSetH(o, b, s, h)
    [] o.mk = "compose" /\ o.case = "PrismIso" -> PrismIsoSetH(o, b, s, h)
    [] o.mk = "compose" /\ o.case = "IsoPrism" -> IsoPrismSetH(o, b, s, h)
    [] o.mk = "compose" /\ o.case = "general" -> generalSetH(o, b, s, h)

(***************************************************************************)
(* The state: one caller holding an optic and a source                     *)
(***************************************************************************)
VARIABLES
  optic,  \* the optic the caller holds
  ty,     \* its static source and target types
  s0,     \* the source the caller started from
  s,      \* the caller's current source
  op,     \* the last operation: "new", "compose", "get", "set", "to", "from"
  arg,    \* the update passed to the last set or from
  pre,    \* the source the last operation was applied to
  out,    \* what the last operation returned (ERR if it threw)
  log,    \* the calls the last operation made
  heap,   \* the objects in memory, where several callers share optic and s
  held,   \* the result of the last set that one of these callers made
  calls   \* the last call made by one of these callers

vars == <<optic, ty, s0, s, op, arg, pre, out, log, heap, held, calls>>

\* the callers that share the optic and the source object
Callers == {"c1", "c2"}
\* no call made yet
Idle ==
  [by |-> "none", o |-> UNDEF, op |-> "idle", arg |-> UNDEF, on |-> UNDEF,
   src |-> UNDEF, pre |-> UNDEF, out |-> UNDEF, outv |-> UNDEF]

Init ==
  \E T \in SourceTypes : \E o \in Prims(T) : \E src \in Sources(T) :
    /\ optic = o
    /\ ty = [src |-> T, tgt |-> Target(o, T)]
    /\ s0 = src
    /\ s = src
    /\ op = "new"
    /\ arg = UNDEF
    /\ pre = src
    /\ out = UNDEF
    /\ log = <<>>
    /\ heap = Store(src, <<>>).h
    /\ held = [x |-> Store(src, <<>>).v, v |-> src, by |-> "none"]
    /\ calls = Idle

\* the caller keeps the value an operation returned, unless it threw
Keep(r) == IF r.v = ERR THEN s ELSE r.v

\* compose(optic, inner), before the optic is first used
ComposeInner(inner) ==
  /\ op \in {"new", "compose"}
  /\ ChainLen(optic) + ChainLen(inner) <= MaxChain
  /\ optic' = compose(optic, inner)
  /\ ty' = [src |-> ty.src, tgt |-> Target(inner, ty.tgt)]
  /\ op' = "compose"
  /\ UNCHANGED <<s0, s, arg, pre, out, log, heap, held, calls>>

\* optic.get(s)
Get ==
  /\ optic.tag # "iso"
  /\ LET r == getR(optic, s)
     IN /\ out' = r.v
        /\ log' = r.log
  /\ op' = "get"
  /\ arg' = UNDEF
  /\ pre' = s
  /\ UNCHANGED <<optic, ty, s0, s, heap, held, calls>>

\* s := optic.set(b)(s), with b a literal or an updater function
Set(b) ==
  /\ optic.tag # "iso"
  /\ LET r == setR(optic, b, s)
     IN /\ Bounded(r.v)
        /\ out' = r.v
        /\ log' = r.log
        /\ s' = Keep(r)
  /\ op' = "set"
  /\ arg' = b
  /\ pre' = s
  /\ UNCHANGED <<optic, ty, s0, heap, held, calls>>

SetLiteral == \E b \in Literals(ty.tgt) : Set(b)
SetFunction == \E f \in Updaters(ty.tgt) : Set(f)

\* optic.to(s) of an Iso
To ==
  /\ optic.tag = "iso"
  /\ LET r == toR(optic, s)
     IN /\ out' = r.v
        /\ log' = r.log
  /\ op' = "to"
  /\ arg' = UNDEF
  /\ pre' = s
  /\ UNCHANGED <<optic, ty, s0, s, heap, held, calls>>

\* s := optic.from(b) of an Iso
From ==
  /\ optic.tag = "iso"
  /\ \E b \in Literals(ty.tgt) :
       LET r == fromR(optic, b)
       IN /\ Bounded(r.v)
          /\ out' = r.v
          /\ log' = r.log
          /\ s' = Keep(r)
          /\ arg' = b
  /\ op' = "from"
  /\ pre' = s
  /\ UNCHANGED <<optic, ty, s0, heap, held, calls>>

Next ==
  \/ \E inner \in Operands(ty.tgt) : ComposeInner(inner)
  \/ Get
  \/ SetLiteral
  \/ SetFunction
  \/ To
  \/ From

Spec == Init /\ [][Next]_vars

(***************************************************************************)
(* Several callers sharing one optic and one source object                 *)
(*                                                                         *)
(* get and set are synchronous functions, so the calls of different        *)
(* callers interleave call by call. The callers hold references to the     *)
(* same source object and to the same optic values: a primitive optic,     *)
(* and, once a caller has composed it, the composition and its outer       *)
(* operand. Here the library runs on the objects in memory: a call is      *)
(* handed the reference of its source, reads the cells it reaches,         *)
(* allocates the objects its spreads and the caller's functions build and  *)
(* returns a slot.                                                         *)
(***************************************************************************)
RECURSIVE Parts(_)
\* the optic values in use: o and the outer operands it was composed from,
\* all with o's source type
Parts(o) == {o} \cup (IF o.mk = "compose" THEN Parts(o.outer) ELSE {})

\* the updates the callers pass to set on a focus of type T: the updater
\* functions, and the literals undefined and Default(T)
SharedUpdates(T) ==
  Updaters(T) \cup (Literals(T) \cap {UNDEF, Default(T)})

\* the shared source object: the one built first
Root == Store(s0, <<>>).v

\* the objects a caller can pass as a source: the shared one, and the one the
\* last set returned, which its caller handed on
SharedSources == {Root, held.x}

\* the state after caller c called o.get(x) or o.set(b)(x), which gave r: the
\* call is recorded, with the source as it was built (src) and as it was when
\* the call began (pre); the result of a set is held; the cells A stay in use
Called(c, o, opn, b, x, r, A) ==
  /\ heap' = Compact(r.h, A)
  /\ held' = IF opn = "set" /\ r.v # ERR
             THEN [x |-> Moved(r.v, A), v |-> Deref(r.v, r.h), by |-> c]
             ELSE [held EXCEPT !.x = Moved(held.x, A)]
  /\ calls' = [by |-> c, o |-> o, op |-> opn, arg |-> b,
               on |-> Moved(x, A),
               src |-> IF x = held.x THEN held.v ELSE s0,
               pre |-> Deref(x, heap),
               out |-> Moved(r.v, A),
               outv |-> Deref(r.v, r.h)]
  /\ s' = Deref(Root, Compact(r.h, A))

\* a caller composes the shared primitive optic with the primitive inner; the
\* shared optic stays in use as the operand
SharedCompose(inner) ==
  /\ optic.mk # "compose"
  /\ optic' = compose(optic, inner)
  /\ ty' = [src |-> ty.src, tgt |-> Target(inner, ty.tgt)]
  /\ UNCHANGED <<s0, s, op, arg, pre, out, log, heap, held, calls>>

\* o.get(x) gave r
Got(c, o, x, r) == Called(c, o, "get", UNDEF, x, r, Live({Root, held.x, x, r.v}, r.h))

\* caller c calls o.get(x)
SharedGet(c) ==
  /\ \E o \in Parts(optic) : \E x \in SharedSources :
       /\ o.tag # "iso"
       /\ Got(c, o, x, getH(o, x, heap))
  /\ UNCHANGED <<optic, ty, s0, op, arg, pre, out, log>>

\* o.set(b)(x) gave r, which the caller holds from now on unless the call threw
WasSet(c, o, b, x, r) ==
  /\ Bounded(Deref(r.v, r.h))
  /\ Called(c, o, "set", b, x, r,
            Live({Root, x, r.v} \cup (IF r.v = ERR THEN {held.x} ELSE {}), r.h))

\* the literal b has been evaluated to lit.v
SetWith(c, o, b, x, lit) == WasSet(c, o, b, x, setH(o, lit.v, x, lit.h))

\* caller c calls o.set(b)(x)
SharedSet(c) ==
  /\ \E o \in Parts(optic) : \E x \in SharedSources :
       /\ o.tag # "iso"
       /\ \E b \in SharedUpdates(Target(o, ty.src)) :
            SetWith(c, o, b, x, Store(b, heap))
  /\ UNCHANGED <<optic, ty, s0, op, arg, pre, out, log>>

\* the callers take turns: the next call is made by another caller than the
\* last one (what one caller does in a row is what Spec follows)
SharedNext ==
  \/ \E inner \in Prims(ty.tgt) : SharedCompose(inner)
  \/ \E c \in Callers \ {calls.by} : SharedGet(c)
  \/ \E c \in Callers \ {calls.by} : SharedSet(c)

\* the types of the source objects the callers share
SharedTypes == {"Company", "Org", "Holder"}

\* the shared source is a record of one of these types, built with the
\* number 0 wherever it holds a number
InitShared == Init /\ ty.src \in SharedTypes /\ NumsOf(s0) \subseteq {0}

SpecShared == InitShared /\ [][SharedNext]_vars

(***************************************************************************)
(* Properties                                                              *)
(***************************************************************************)
\* the values alone, without the logs
get(o, x) == getR(o, x).v
set(o, b, x) == setR(o, b, x).v
to(o, x) == toR(o, x).v
from(o, b) == fromR(o, b).v

\* w, unless the step that computed v threw: the error is thrown on
Thru(v, w) == IF v = ERR THEN ERR ELSE w

IsSet == op = "set"
IsSetFunction == op = "set" /\ IsFunction(arg)
IsSetLiteral == op = "set" /\ ~IsFunction(arg)
IsGeneral(o) == o.mk = "compose" /\ o.case = "general"
IsPrismIso(o) == o.mk = "compose" /\ o.case = "PrismIso"
Calls(l, fns) == {i \in 1..Len(l) : l[i].call \in fns}

RECURSIVE AbsentBranch(_, _)
\* get(x) is absent because a Prism branch on the path is: a Prism.of getter
\* returned undefined, or the outer operand of a general or Prism . Iso
\* composition did
AbsentBranch(o, x) ==
  CASE o.mk = "of" -> get(o, x) = UNDEF
    [] IsGeneral(o) ->
         \/ get(o.outer, x) = UNDEF
         \/ get(o.outer, x) # ERR /\ AbsentBranch(o.inner, get(o.outer, x))
    [] IsPrismIso(o) -> get(o.outer, x) = UNDEF
    [] o.mk = "compose" /\ o.case = "IsoPrism" ->
         to(o.outer, x) # ERR /\ AbsentBranch(o.inner, to(o.outer, x))
    [] OTHER -> FALSE

RECURSIVE Lawful(_, _)
\* on the path from x down to the absent branch every Iso satisfies
\* from(to(y)) = y and every Prism.of setter writes the value it got back
\* unchanged
Lawful(o, x) ==
  CASE o.mk = "prop" -> TRUE
    [] o.mk = "of" ->
         UserGet(o.prism, x) = UNDEF \/ UserSet(o.prism, UserGet(o.prism, x), x) = x
    [] o.mk = "Iso" -> UserFrom(o.iso, UserTo(o.iso, x)) = x
    [] o.mk = "compose" /\ o.outer.tag = "iso" ->
         Lawful(o.outer, x) /\ Lawful(o.inner, to(o.outer, x))
    [] o.mk = "compose" /\ o.outer.tag # "iso" ->
         /\ Lawful(o.outer, x)
         /\ get(o.outer, x) \in {UNDEF, ERR} \/ Lawful(o.inner, get(o.outer, x))

RECURSIVE Strip(_)
\* a value without its fields that hold undefined: two values are the same
\* for toEqual when their stripped forms are equal
Strip(v) ==
  IF v.t = "object"
  THEN Obj([k \in {j \in DOMAIN v.f : v.f[j] # UNDEF} |-> Strip(v.f[k])])
  ELSE v

\* C1 (as stated): whenever get(s) of a prism-tagged optic is absent, set(f)(s)
\* with a function updater returns s unchanged (even up to fields that hold
\* undefined).
C1_AsStated ==
  (IsSetFunction /\ optic.tag = "prism" /\ get(optic, pre) = UNDEF)
    => Strip(out) = Strip(pre)

\* C1 (amended): whenever get(s) of a prism-tagged optic is absent because a
\* Prism branch on the path is absent, and the Isos and Prism.of setters above
\* that branch are lawful on s, set(f)(s) with a function updater returns a
\* value equal to s.
C1_FunctionSetNoOpOnAbsentBranch ==
  (IsSetFunction /\ optic.tag = "prism" /\ AbsentBranch(optic, pre) /\ Lawful(optic, pre))
    => out = pre

\* a composed prism, three primitives deep, whose inner Prism branch is absent
\* under a present outer branch, has been set with a function updater
C1_Witness ==
  /\ IsSetFunction /\ optic.tag = "prism" /\ ChainLen(optic) = 3
  /\ AbsentBranch(optic, pre) /\ Lawful(optic, pre)
  /\ IsGeneral(optic) /\ get(optic.outer, pre) # UNDEF
  /\ arg.name = "constant"

\* C2: in a general-case composition whose outer branch is absent on the
\* starting source, every set (literal or function) returns its source
\* unchanged, so after any sequence of sets the source is still the starting
\* one and get is still absent.
C2_AbsentOuterBranchStaysAbsent ==
  (IsGeneral(optic) /\ op \in {"get", "set"} /\ get(optic.outer, s0) = UNDEF)
    => /\ s = s0
       /\ get(optic, s) = UNDEF
       /\ (IsSet => out = pre)

\* a literal that is not undefined has been set through a Prism . Prism whose
\* outer branch is absent
C2_Witness ==
  /\ IsGeneral(optic) /\ optic.outer.tag = "prism" /\ optic.inner.tag = "prism"
  /\ IsSetLiteral /\ arg # UNDEF
  /\ get(optic.outer, s0) = UNDEF

\* C3 (as stated): in every composed optic that contains a Prism, a literal set
\* over an absent outer branch is handed on to a setter of the outer optic
\* with a concrete value.
C3_AsStated ==
  (IsSetLiteral /\ arg # UNDEF /\ optic.mk = "compose" /\ optic.tag = "prism"
     /\ optic.outer.tag # "iso" /\ get(optic.outer, pre) = UNDEF)
    => \E i \in Calls(log, {"prism.set", "prop.set"}) : ~IsFunction(log[i].a)

\* C3 (amended): over an absent outer branch, a function set returns the
\* source unchanged in every composition with a Lens or Prism outer; a literal
\* set is handed on to the outer optic's set, with inner.from(b), only in a
\* Prism . Iso composition, and in a general-case composition it returns the
\* source unchanged without calling any setter.
C3_LiteralMaterializesOnlyThroughPrismIso ==
  (IsSet /\ optic.mk = "compose" /\ optic.tag = "prism"
     /\ optic.outer.tag # "iso" /\ get(optic.outer, pre) = UNDEF)
    => IF IsFunction(arg) THEN out = pre /\ Calls(log, {"prism.set", "prop.set"}) = {}
       ELSE IF IsPrismIso(optic)
       THEN /\ out = set(optic.outer, from(optic.inner, arg), pre)
            /\ Calls(log, {"iso.from"}) # {}
       ELSE out = pre /\ Calls(log, {"prism.set", "prop.set"}) = {}

\* a literal set through a Prism . Iso has materialized an absent outer branch
C3_Witness ==
  /\ IsSetLiteral /\ IsPrismIso(optic)
  /\ get(optic.outer, pre) = UNDEF
  /\ get(optic.outer, out) # UNDEF

RECURSIVE IsPropChain(_)
\* a prop lens, or a Lens . Lens composition of such lenses
IsPropChain(o) ==
  \/ o.mk = "prop"
  \/ o.mk = "compose" /\ o.case = "LensLens"
       /\ IsPropChain(o.outer) /\ IsPropChain(o.inner)

\* C4: Lens get/set round trip: after set(v)(s) with a literal v through a prop
\* lens or a composition of prop lenses, get returns v; set throws on no
\* source on which get does not.
C4_LensGetSetRoundTrip ==
  (IsSetLiteral /\ IsPropChain(optic))
    => /\ get(optic, pre) # ERR => out # ERR
       /\ out # ERR => get(optic, out) = arg

\* a literal other than the current value has been set through three prop
\* lenses
C4_Witness ==
  /\ IsSetLiteral /\ IsPropChain(optic) /\ ChainLen(optic) = 3
  /\ get(optic, pre) \notin {arg, ERR}
  /\ get(optic, out) = arg

\* C5: Lens update round trip: after set(f)(s) with a function f through a
\* prop lens or a composition of prop lenses, get returns f(get(s)), on every
\* source on which get(s) does not throw.
C5_LensUpdateRoundTrip ==
  (IsSetFunction /\ IsPropChain(optic) /\ get(optic, pre) # ERR)
    => out # ERR /\ get(optic, out) = Apply(arg, get(optic, pre))

\* an updater that changes the value has been applied through composed prop
\* lenses
C5_Witness ==
  /\ IsSetFunction /\ IsPropChain(optic) /\ ChainLen(optic) >= 2
  /\ arg.name = "increment"
  /\ get(optic, pre) = Num(0) /\ get(optic, out) = Num(1)

RECURSIVE OffPathSame(_, _, _, _)
\* the object y has every own field of x off the path of the prop chain o,
\* holding the very slot it holds in x (the same object, where the field holds
\* one), at every level of the path, and no field besides these and the
\* path's own; the fields are the own enumerable properties, of a record or
\* of an array; a level that x does not have has no fields
OffPathSame(o, x, y, h) ==
  IF o.mk = "prop"
  THEN /\ (DOMAIN SpreadOf(Cell(y, h))) \ {o.key} = (DOMAIN SpreadOf(Cell(x, h))) \ {o.key}
       /\ \A k \in (DOMAIN SpreadOf(Cell(x, h))) \ {o.key} :
            SpreadOf(Cell(y, h))[k] = SpreadOf(Cell(x, h))[k]
  ELSE /\ OffPathSame(o.outer, x, y, h)
       /\ OffPathSame(o.inner, getH(o.outer, x, h).v, getH(o.outer, y, h).v, h)

\* C6: a set through a prop lens or a composition of prop lenses returns an
\* object in which every field off the focused path is the field of the
\* source, the same object or the same value, at every level of the path,
\* records and arrays alike, and leaves the source object as it was; this
\* holds for the shared source and for every value a set derived from it, in
\* any sequence of calls.
C6_UnrelatedFieldsPreserved ==
  (calls.op = "set" /\ IsPropChain(calls.o) /\ calls.out # ERR) =>
    /\ OffPathSame(calls.o, calls.on, calls.out, heap)
    /\ Deref(calls.on, heap) = calls.pre
    /\ calls.pre = calls.src
    /\ s = s0

\* a set through prop("employees") . prop("0") on a value that an earlier set
\* derived from the shared source: the record has a sibling field, the array
\* a sibling element, and the focused element has changed
C6_Witness ==
  /\ calls.op = "set" /\ calls.o = compose(prop("employees"), prop("0"))
  /\ calls.on # Root /\ calls.src # s0
  /\ calls.outv \notin {ERR, calls.src}
  /\ "name" \in DOMAIN Cell(calls.on, heap).f
  /\ Cell(getH(prop("employees"), calls.on, heap).v, heap).t = "array"
  /\ Len(Cell(getH(prop("employees"), calls.on, heap).v, heap).a) = 2

\* the table of section 4.4: Iso iff both are Isos, Prism iff one is a Prism
TableTag(a, b) ==
  IF a = "iso" /\ b = "iso" THEN "iso"
  ELSE IF a = "prism" \/ b = "prism" THEN "prism"
  ELSE "lens"

RECURSIVE Flatten(_)
\* the primitive optics of o, outermost first
Flatten(o) == IF o.mk = "compose" THEN Flatten(o.outer) \o Flatten(o.inner) ELSE <<o>>

\* C7: the tag of compose(outer, inner) follows the table; a chain with a
\* Prism in it is tagged prism; and both nestings of a chain of three have the
\* same tag.
C7_TagTable ==
  optic.mk = "compose" =>
    LET ps == Flatten(optic)
    IN /\ optic.tag = TableTag(optic.outer.tag, optic.inner.tag)
       /\ (\E i \in 1..Len(ps) : ps[i].tag = "prism") => optic.tag = "prism"
       /\ Len(ps) = 3 =>
            /\ compose(compose(ps[1], ps[2]), ps[3]).tag
                 = compose(ps[1], compose(ps[2], ps[3])).tag
            /\ optic \in {compose(compose(ps[1], ps[2]), ps[3]),
                          compose(ps[1], compose(ps[2], ps[3]))}

\* an Iso, a Lens and an Iso have been composed, the last two first
C7_Witness ==
  /\ optic.mk = "compose" /\ ChainLen(optic) = 3
  /\ optic.outer.tag = "iso" /\ optic.inner.mk = "compose"
  /\ optic.inner.outer.tag = "lens" /\ optic.inner.inner.tag = "iso"
  /\ optic.tag = "lens"

\* C8: Prism.of normalization: get is the caller's get; a literal goes to the
\* base setter whether or not get(s) is absent; a function goes to the base
\* setter as f(get(s)) when get(s) is present; and when get(s) is absent a
\* function set returns s with neither f nor the base setter called.
C8_PrismOfNormalization ==
  optic.mk = "of" =>
    LET p == optic.prism
    IN /\ op = "get" => out = UserGet(p, pre)
       /\ IsSetLiteral => out = UserSet(p, arg, pre)
       /\ (IsSetFunction /\ UserGet(p, pre) # UNDEF)
            => out = UserSet(p, Apply(arg, UserGet(p, pre)), pre)
       /\ (IsSetFunction /\ UserGet(p, pre) = UNDEF)
            => out = pre /\ Calls(log, {"updater", "prism.set"}) = {}

\* each of the four cases has happened on a Prism.of prism: here a literal
\* has materialized an absent branch through the base setter
C8_Witness ==
  /\ optic.mk = "of" /\ optic.prism.set = "spread"
  /\ IsSetLiteral /\ arg # UNDEF
  /\ UserGet(optic.prism, pre) = UNDEF
  /\ out # pre /\ UserGet(optic.prism, out) = arg

\* C9: a prism built from the fuller setter g behaves as the prism built from
\* the base setter a |-> g(a): g is only called with a concrete value, and
\* set(f)(s) returns s when get(s) is absent although g(f)(s) is another
\* source.
C9_SetterShapeIndependence ==
  (optic.mk = "of" /\ optic.prism.set = "full" /\ IsSet) =>
    /\ \A i \in Calls(log, {"prism.set"}) : ~IsFunction(log[i].a)
    /\ out = set(FieldPrism(optic.prism.key, "spread"), arg, pre)
    /\ (IsFunction(arg) /\ UserGet(optic.prism, pre) = UNDEF) => out = pre

\* a function has been set through a fuller-setter prism whose branch is
\* absent, where the fuller setter itself would have changed the source
C9_Witness ==
  /\ optic.mk = "of" /\ optic.prism.set = "full"
  /\ IsSetFunction
  /\ UserGet(optic.prism, pre) = UNDEF
  /\ UserSet(optic.prism, arg, pre) # pre
  /\ Strip(UserSet(optic.prism, arg, pre)) # Strip(pre)

\* C10: Prism . Iso: get is absent when outer.get(s) is, and
\* inner.to(outer.get(s)) otherwise; a literal b is set as
\* outer.set(inner.from(b))(s) even over an absent outer branch; a function f
\* returns s over an absent outer branch and otherwise sets
\* inner.from(f(inner.to(outer.get(s)))); when outer.get(s) or a conversion
\* of the Iso throws, so does the composed call.
C10_PrismIso ==
  IsPrismIso(optic) =>
    LET outerValue == get(optic.outer, pre)
    IN IF outerValue = ERR THEN op \in {"get", "set"} => out = ERR
       ELSE
       /\ op = "get" =>
            out = IF outerValue = UNDEF THEN UNDEF ELSE to(optic.inner, outerValue)
       /\ IsSetLiteral =>
            out = Thru(from(optic.inner, arg),
                       set(optic.outer, from(optic.inner, arg), pre))
       /\ IsSetFunction =>
            out = IF outerValue = UNDEF THEN pre
                  ELSE Thru(to(optic.inner, outerValue),
                         Thru(from(optic.inner, Apply(arg, to(optic.inner, outerValue))),
                           set(optic.outer,
                               from(optic.inner, Apply(arg, to(optic.inner, outerValue))),
                               pre)))

\* a function updater has changed a present branch through a Prism . Iso
C10_Witness ==
  /\ IsPrismIso(optic) /\ IsSetFunction
  /\ get(optic.outer, pre) = Num(0)
  /\ arg.name = "parseInc"
  /\ get(optic.outer, out) = Num(1)
  /\ get(optic, out) = Str(<<"1">>)

\* a value that is there: neither undefined nor a thrown error
Present(v) == v \notin {UNDEF, ERR}

\* C11: updater/literal uniformity: on every source s on which get(s) is
\* present, set(f)(s) with a function f returns what set(f(get(s)))(s) with the
\* corresponding literal returns, for prop lenses, Prism.of prisms and every
\* Lens- or Prism-tagged composition.
C11_UpdaterLiteralUniformity ==
  (IsSetFunction /\ Present(get(optic, pre)))
    => out = set(optic, Apply(arg, get(optic, pre)), pre)

\* an updater has changed the focus of a prism-tagged composition three
\* primitives deep
C11_Witness ==
  /\ IsSetFunction /\ IsGeneral(optic) /\ ChainLen(optic) = 3
  /\ arg.name = "increment"
  /\ get(optic, pre) = Num(0)
  /\ out # pre /\ get(optic, out) = Num(1)

\* what get of a composition with a Prism outer must return on x: the outer
\* result alone when outer.get(x) is absent, else the inner get (or to) of it
PrismOuterGet(o, x) ==
  LET outerValue == getR(o.outer, x)
      r == getR(o, x)
  IN IF outerValue.v = UNDEF THEN r.v = UNDEF /\ r.log = outerValue.log
     ELSE IF outerValue.v = ERR THEN r.v = ERR
     ELSE r.v = IF o.inner.tag = "iso" THEN to(o.inner, outerValue.v)
                ELSE get(o.inner, outerValue.v)

RECURSIVE GetPropagates(_, _)
\* PrismOuterGet holds of o on x and of every composition inside o on the
\* source that reaches it
GetPropagates(o, x) ==
  IF o.mk # "compose" THEN TRUE
  ELSE LET outerValue == IF o.outer.tag = "iso" THEN to(o.outer, x) ELSE get(o.outer, x)
       IN /\ o.outer.tag = "prism" => PrismOuterGet(o, x)
          /\ GetPropagates(o.outer, x)
          /\ (Present(outerValue) \/ (outerValue = UNDEF /\ o.outer.tag = "lens"))
               => GetPropagates(o.inner, outerValue)

\* C12: absence propagation on get: in every composition with a Prism outer,
\* at any depth, when outer.get(s) is absent the composed get(s) is absent,
\* throws nothing and makes no call beyond those of outer.get; when
\* outer.get(s) is present it is the inner optic's get (or to) of that value.
C12_AbsencePropagationOnGet ==
  (op = "get" /\ optic.mk = "compose") =>
    /\ GetPropagates(optic, pre)
    /\ (optic.outer.tag = "prism" /\ get(optic.outer, pre) = UNDEF)
         => out = UNDEF /\ log = getR(optic.outer, pre).log

\* get has been called through a composed Prism outer whose branch is absent,
\* with a Prism.of prism as the inner optic
C12_Witness ==
  /\ op = "get" /\ optic.mk = "compose" /\ ChainLen(optic) = 3
  /\ optic.outer.mk = "compose" /\ optic.outer.tag = "prism"
  /\ optic.inner.mk = "of"
  /\ get(optic.outer, pre) = UNDEF
  /\ out = UNDEF

\* y is the array x with the element at index key replaced by v
ArrayWith(x, key, v, y) ==
  /\ y.t = "array"
  /\ Len(y.a) = Len(x.a)
  /\ \A i \in 1..Len(x.a) : y.a[i] = IF IdxKey[i] = key THEN v ELSE x.a[i]

\* the index key is within the array x
InRange(x, key) == x.t = "array" /\ \E i \in 1..Len(x.a) : IdxKey[i] = key

\* the value a set with update b writes over the current value cur
Written(b, cur) == IF IsFunction(b) THEN Apply(b, cur) ELSE b

\* C13 (as stated): a set through a prop lens on an index of an array returns
\* an array of the same length with that element replaced and the others
\* unchanged, and composed under an outer prop lens it updates the array
\* inside the outer record in the same way.
C13_AsStated ==
  (IsSet /\ arg # UNDEF /\ out # ERR) =>
    /\ (optic.mk = "prop" /\ InRange(pre, optic.key))
         => ArrayWith(pre, optic.key, Written(arg, GetProp(pre, optic.key)), out)
    /\ (optic.mk = "compose" /\ optic.outer.mk = "prop" /\ optic.inner.mk = "prop"
          /\ InRange(get(optic.outer, pre), optic.inner.key))
         => /\ out.t = "object"
            /\ ArrayWith(get(optic.outer, pre), optic.inner.key,
                         Written(arg, get(optic, pre)), get(optic.outer, out))

IsLensLens(o) == o.mk = "compose" /\ o.case = "LensLens"

\* C14: Lens . Lens: get(s) is inner.get(outer.get(s)) and set(b)(s) is
\* outer.set(inner.set(b)(outer.get(s)))(s), for literals and functions, an
\* error thrown on the way being thrown by the composed call; there is no
\* absence short-circuit: every set that returns has called a setter, and a
\* literal set over a missing outer value returns a changed source.
C14_LensLens ==
  IsLensLens(optic) =>
    LET a == get(optic.outer, pre)
    IN /\ op = "get" => out = IF a = ERR THEN ERR ELSE get(optic.inner, a)
       /\ IsSet =>
            out = IF a = ERR \/ set(optic.inner, arg, a) = ERR THEN ERR
                  ELSE set(optic.outer, set(optic.inner, arg, a), pre)
       /\ (IsSet /\ out # ERR) => Calls(log, {"prop.set", "iso.from"}) # {}
       /\ (IsSetLiteral /\ a = UNDEF /\ out # ERR) => out # pre

\* a literal has been set through a Lens . Lens whose outer value is missing
C14_Witness ==
  /\ IsLensLens(optic) /\ IsSetLiteral /\ arg # UNDEF
  /\ get(optic.outer, pre) = UNDEF
  /\ out \notin {ERR, pre}
  /\ get(optic, out) = arg

IsLensIso(o) == o.mk = "compose" /\ o.case = "LensIso"

\* C15: Lens . Iso: the composition is a Lens; get(s) is
\* inner.to(outer.get(s)); a literal b is set as outer.set(inner.from(b))(s) and
\* a function f as outer.set(inner.from(f(inner.to(outer.get(s)))))(s); where
\* outer.get or a conversion of the Iso throws, so does the composed call.
C15_LensIso ==
  IsLensIso(optic) =>
    LET a == get(optic.outer, pre)
    IN /\ optic.tag = "lens"
       /\ IF a = ERR THEN op \in {"get", "set"} => out = ERR
          ELSE /\ op = "get" => out = to(optic.inner, a)
               /\ IsSetLiteral =>
                    out = Thru(from(optic.inner, arg),
                               set(optic.outer, from(optic.inner, arg), pre))
               /\ IsSetFunction =>
                    out = Thru(to(optic.inner, a),
                            Thru(from(optic.inner, Apply(arg, to(optic.inner, a))),
                              set(optic.outer,
                                  from(optic.inner, Apply(arg, to(optic.inner, a))), pre)))

\* a function updater has changed a number through its string image, through
\* a Lens . Iso
C15_Witness ==
  /\ IsLensIso(optic) /\ IsSetFunction
  /\ arg.name = "parseInc"
  /\ get(optic.outer, pre) = Num(0)
  /\ get(optic.outer, out) = Num(1)
  /\ get(optic, out) = Str(<<"1">>)

IsIsoLens(o) == o.mk = "compose" /\ o.case = "IsoLens"

\* C16: Iso . Lens: the composition is a Lens; get(s) is
\* inner.get(outer.to(s)) and set(b)(s) is
\* outer.from(inner.set(b)(outer.to(s))), for literals and functions alike, an
\* error thrown on the way being thrown by the composed call.
C16_IsoLens ==
  IsIsoLens(optic) =>
    LET a == to(optic.outer, pre)
    IN /\ optic.tag = "lens"
       /\ op = "get" => out = IF a = ERR THEN ERR ELSE get(optic.inner, a)
       /\ IsSet =>
            out = IF a = ERR \/ set(optic.inner, arg, a) = ERR THEN ERR
                  ELSE from(optic.outer, set(optic.inner, arg, a))

\* a function updater has changed a field of the boxed record through an
\* Iso . Lens, and the result is a box again
C16_Witness ==
  /\ IsIsoLens(optic) /\ IsSetFunction
  /\ arg.name = "increment"
  /\ get(optic, pre) = Num(0)
  /\ out # ERR /\ get(optic, out) = Num(1)
  /\ DOMAIN out.f = {"value"}

IsIsoIso(o) == o.mk = "compose" /\ o.case = "IsoIso"

\* the round-trip laws of an Iso, at a source x and at a target y
FromTo(i, x) == to(i, x) # ERR /\ from(i, to(i, x)) = x
ToFrom(i, y) == from(i, y) # ERR /\ to(i, from(i, y)) = y

\* C17: Iso . Iso: the composition is an Iso with to(s) = inner.to(outer.to(s))
\* and from(b) = outer.from(inner.from(b)); wherever both operands satisfy a
\* round-trip law on the values that pass through them, the composition
\* satisfies it: from(to(s)) = s, and to(from(b)) = b.
C17_IsoIso ==
  IsIsoIso(optic) =>
    /\ optic.tag = "iso"
    /\ op = "to" =>
         /\ out = IF to(optic.outer, pre) = ERR THEN ERR
                  ELSE to(optic.inner, to(optic.outer, pre))
         /\ (FromTo(optic.outer, pre) /\ FromTo(optic.inner, to(optic.outer, pre)))
              => from(optic, out) = pre
    /\ op = "from" =>
         /\ out = IF from(optic.inner, arg) = ERR THEN ERR
                  ELSE from(optic.outer, from(optic.inner, arg))
         /\ (ToFrom(optic.inner, arg) /\ ToFrom(optic.outer, from(optic.inner, arg)))
              => to(optic, out) = arg

\* from of an Iso . Iso has turned a string into a boxed number, and to turns
\* the box back into the string
C17_Witness ==
  /\ IsIsoIso(optic) /\ op = "from"
  /\ arg = Str(<<"1">>)
  /\ out = Obj([k \in {"value"} |-> Num(1)])
  /\ ToFrom(optic.inner, arg) /\ ToFrom(optic.outer, from(optic.inner, arg))
  /\ to(optic, out) = arg

\* C18: optics are stateless under interleaved reuse: whatever calls the
\* callers have made before, on the shared source or on a value derived from
\* it, through the shared optic or its operand, and whatever composition was
\* made in between, a call returns what the same call returns when run alone
\* on its source as that was first built; no call changes an object it was
\* handed or an object an earlier call returned: the shared source is the
\* object it was built as, cell by cell, and the held result still is the
\* value its call returned.
C18_StatelessUnderInterleaving ==
  /\ SubSeq(heap, 1, Len(Store(s0, <<>>).h)) = Store(s0, <<>>).h
  /\ s = s0
  /\ Deref(held.x, heap) = held.v
  /\ calls.op # "idle" =>
       /\ Deref(calls.on, heap) = calls.src
       /\ calls.outv = IF calls.op = "get" THEN get(calls.o, calls.src)
                       ELSE set(calls.o, calls.arg, calls.src)
       /\ Deref(calls.out, heap) = calls.outv

\* the first caller has set through the shared optic on the shared source,
\* which gave it another value; the optic has been composed; then the second
\* caller has called get through the outer operand on the shared source and
\* seen what the source was built with, not what the first caller wrote
C18_Witness ==
  /\ optic.mk = "compose"
  /\ calls.by = "c2" /\ calls.op = "get" /\ calls.o = optic.outer
  /\ calls.on = Root
  /\ held.by = "c1" /\ held.v # s0
  /\ Present(calls.outv) /\ calls.outv = get(optic.outer, s0)
  /\ get(optic.outer, held.v) # calls.outv

IsLensPrism(o) == IsGeneral(o) /\ o.outer.tag = "lens" /\ o.inner.tag = "prism"

\* C19 (as stated): in a Lens . Prism composition the outer value is always
\* treated as present: on every source, also one on which outer.get(s) is
\* undefined, get(s) is inner.get(outer.get(s)) and set(b)(s) is
\* outer.set(inner.set(b)(outer.get(s)))(s).
C19_AsStated ==
  IsLensPrism(optic) =>
    LET a == get(optic.outer, pre)
    IN /\ op = "get" => out = IF a = ERR THEN ERR ELSE get(optic.inner, a)
       /\ IsSet =>
            out = IF a = ERR \/ set(optic.inner, arg, a) = ERR THEN ERR
                  ELSE set(optic.outer, set(optic.inner, arg, a), pre)

\* C19 (amended): in a Lens . Prism composition, on a source on which
\* outer.get(s) is defined, get(s) is inner.get(outer.get(s)) and set(b)(s) is
\* outer.set(inner.set(b)(outer.get(s)))(s); on a source on which outer.get(s)
\* is undefined the outer value is treated as absent: get returns undefined
\* without calling inner.get, and set returns s without calling the updater
\* or any setter, for a literal and for a function.
C19_LensPrismUndefinedOuterIsAbsent ==
  IsLensPrism(optic) =>
    LET a == get(optic.outer, pre)
    IN IF a = ERR THEN op \in {"get", "set"} => out = ERR
       ELSE IF a = UNDEF
       THEN /\ op = "get" => out = UNDEF /\ Calls(log, {"prism.get"}) = {}
            /\ IsSet => /\ out = pre
                        /\ Calls(log, {"prism.get", "prism.set", "prop.set", "updater"}) = {}
       ELSE /\ op = "get" => out = get(optic.inner, a)
            /\ IsSet =>
                 out = IF set(optic.inner, arg, a) = ERR THEN ERR
                       ELSE set(optic.outer, set(optic.inner, arg, a), pre)

\* a literal has been set through a Lens . Prism on a source whose outer field
\* is undefined, where the inner Prism alone would have built the branch
C19_Witness ==
  /\ IsLensPrism(optic) /\ IsSetLiteral /\ arg # UNDEF
  /\ get(optic.outer, pre) = UNDEF
  /\ out = pre
  /\ set(optic.inner, arg, UNDEF) \notin {ERR, UNDEF}
  /\ set(optic.outer, set(optic.inner, arg, UNDEF), pre) # pre

\* a Lens composed from a prop lens and an Iso, in either order
IsPropIsoLens(o) ==
  \/ IsLensIso(o) /\ o.outer.mk = "prop" /\ o.inner.mk = "Iso"
  \/ IsIsoLens(o) /\ o.outer.mk = "Iso" /\ o.inner.mk = "prop"

\* the value the Iso of such a Lens converts back on set(b)(x), and on which it
\* must satisfy to(from(a)) = a for the round trip
Converted(o, b, x) ==
  IF IsLensIso(o) THEN Written(b, get(o, x))
  ELSE set(o.inner, b, to(o.outer, x))


IsIsoPrism(o) == o.mk = "compose" /\ o.case = "IsoPrism"

\* C21: Iso . Prism: the composition is a Prism; get(s) is
\* inner.get(outer.to(s)) and set(b)(s) is
\* outer.from(inner.set(b)(outer.to(s))) for every b, an error thrown on the
\* way being thrown by the composed call; there is no absence check of its
\* own: when the inner Prism branch is absent and b is a function the result
\* is outer.from(outer.to(s)), which is s exactly when from(to(s)) = s.
C21_IsoPrism ==
  IsIsoPrism(optic) =>
    LET a == to(optic.outer, pre)
    IN /\ optic.tag = "prism"
       /\ op = "get" => out = IF a = ERR THEN ERR ELSE get(optic.inner, a)
       /\ IsSet =>
            out = IF a = ERR \/ set(optic.inner, arg, a) = ERR THEN ERR
                  ELSE from(optic.outer, set(optic.inner, arg, a))
       /\ (IsSetFunction /\ a # ERR /\ AbsentBranch(optic.inner, a))
            => /\ out = from(optic.outer, a)
               /\ out = pre <=> FromTo(optic.outer, pre)

\* a function has been set through an Iso . Prism whose inner branch is
\* absent, on a source the Iso does not round-trip: the result is not s
C21_Witness ==
  /\ IsIsoPrism(optic) /\ IsSetFunction
  /\ AbsentBranch(optic.inner, to(optic.outer, pre))
  /\ ~FromTo(optic.outer, pre)
  /\ out \notin {ERR, pre}
  /\ out = from(optic.outer, to(optic.outer, pre))

\* the calls of o.set in the log l
SetsOf(l, o) == {i \in 1..Len(l) : l[i].call = "set" /\ l[i].o = o}

\* on set(b)(x), compose(outer, inner) gets as far as its inner operand
InnerReached(o, b, x) ==
  CASE o.case \in {"LensLens", "LensIso"} -> get(o.outer, x) # ERR
    [] o.case \in {"IsoLens", "IsoPrism"} -> to(o.outer, x) # ERR
    [] o.case = "general" -> Present(get(o.outer, x))
    [] o.case = "PrismIso" ->
         IF IsFunction(b) THEN Present(get(o.outer, x)) ELSE get(o.outer, x) # ERR

\* a chain of prop lenses and Prism.of prisms only
IsPrimChain(o) ==
  LET ps == Flatten(o)
  IN \A k \in 1..Len(ps) : ps[k].mk \in {"prop", "of"}

\* C23: one copy per level: a set through a chain of n prop lenses and
\* Prism.of prisms, composed in either association, on a source whose
\* branches are all present, succeeds and calls each level's primitive setter
\* exactly once, n setter calls in all, from the focused field up to the
\* root.
C23_OneCopyPerLevel ==
  (IsSet /\ IsPrimChain(optic) /\ Present(get(optic, pre))) =>
    LET ps == Flatten(optic)
    IN /\ out # ERR
       /\ Cardinality(Calls(log, {"prop.set", "prism.set"})) = Len(ps)
       /\ \A k \in 1..Len(ps) : Cardinality(SetsOf(log, ps[k])) = 1
       /\ \A k, j \in 1..Len(ps) :
            k < j => \A i \in SetsOf(log, ps[k]) : \A h \in SetsOf(log, ps[j]) : h < i

\* a literal has been set through a right-nested chain of three primitives
\* with a Prism.of prism among them, all branches present
C23_Witness ==
  /\ IsSetLiteral /\ IsPrimChain(optic) /\ ChainLen(optic) = 3
  /\ optic.inner.mk = "compose"
  /\ \E k \in 1..3 : Flatten(optic)[k].mk = "of"
  /\ Present(get(optic, pre))
  /\ out \notin {ERR, pre}
  /\ Cardinality(Calls(log, {"prop.set", "prism.set"})) = 3

\* C24: one call set(f)(s) with a function f calls f at most once: exactly
\* once, on the composed get(s), when no Prism branch on the path is absent
\* and get(s) does not throw; and not at all when a Prism branch is absent
\* (the branch of a Prism.of prism, or the outer value of a general-case or
\* Prism . Iso composition).
C24_UpdaterCalledAtMostOnce ==
  IsSetFunction =>
    LET u == Calls(log, {"updater"})
    IN /\ Cardinality(u) <= 1
       /\ (~AbsentBranch(optic, pre) /\ get(optic, pre) # ERR)
            => /\ Cardinality(u) = 1
               /\ \A i \in u : log[i].a = get(optic, pre)
       /\ AbsentBranch(optic, pre) => u = {}

\* a function has been set through a chain of three with a Prism and an Iso
\* in it, all branches present: it was called once, on get(s)
C24_Witness ==
  /\ IsSetFunction /\ ChainLen(optic) = 3 /\ optic.tag = "prism"
  /\ \E k \in 1..3 : Flatten(optic)[k].tag = "iso"
  /\ Present(get(optic, pre))
  /\ Cardinality(Calls(log, {"updater"})) = 1
  /\ \A i \in Calls(log, {"updater"}) : log[i].a = get(optic, pre)
  /\ out \notin {ERR, pre}

\* the chain of primitives ps read from x, as the claim asks: every Lens
\* focuses a defined value, every Prism.of prism is a field-spread one, every
\* Iso satisfies its round-trip law on the value it receives; nothing is asked
\* of what lies behind an absent branch
RECURSIVE ChainStated(_, _)
ChainStated(ps, x) ==
  IF ps = <<>> THEN TRUE
  ELSE LET p == Head(ps)
           v == IF p.tag = "iso" THEN to(p, x) ELSE get(p, x)
       IN CASE p.mk = "prop" -> Present(v) /\ ChainStated(Tail(ps), v)
            [] p.mk = "of" ->
                 /\ p.prism.set = "spread"
                 /\ v \in {UNDEF, ERR} \/ ChainStated(Tail(ps), v)
            [] p.mk = "Iso" ->
                 /\ v # ERR
                 /\ from(p, v) = x
                 /\ ChainStated(Tail(ps), v)

\* the same, and every Iso converts the value it receives to a defined value
RECURSIVE ChainDefined(_, _)
ChainDefined(ps, x) ==
  IF ps = <<>> THEN TRUE
  ELSE LET p == Head(ps)
           v == IF p.tag = "iso" THEN to(p, x) ELSE get(p, x)
       IN CASE p.mk = "prop" -> Present(v) /\ ChainDefined(Tail(ps), v)
            [] p.mk = "of" ->
                 /\ p.prism.set = "spread"
                 /\ v \in {UNDEF, ERR} \/ ChainDefined(Tail(ps), v)
            [] p.mk = "Iso" ->
                 /\ Present(v)
                 /\ from(p, v) = x
                 /\ ChainDefined(Tail(ps), v)

LeftNested(ps) == compose(compose(ps[1], ps[2]), ps[3])

RightNested(ps) == compose(ps[1], compose(ps[2], ps[3]))

\* C25 (as stated): composition is associative in behaviour: for a chain a, b,
\* c of prop lenses, field-spread Prism.of prisms and lawful Isos, on a source
\* where every Lens of the chain focuses a defined value,
\* compose(compose(a,b),c) and compose(a,compose(b,c)) return the same get(s)
\* and the same set(u)(s), for literal and function updates u.
C25_AsStated ==
  (op \in {"get", "set"} /\ ChainLen(optic) = 3 /\ optic.tag # "iso"
     /\ ChainStated(Flatten(optic), pre)) =>
    LET l == LeftNested(Flatten(optic))
        r == RightNested(Flatten(optic))
    IN /\ get(l, pre) = get(r, pre)
       /\ op = "get" => out = get(l, pre) /\ out = get(r, pre)
       /\ op = "set" => out = set(l, arg, pre) /\ out = set(r, arg, pre)

\* C25 (amended): the two nestings return the same get(s) and the same
\* set(u)(s) on a source where every Lens of the chain focuses a defined value
\* and every Iso of the chain converts to a defined value: compose takes an
\* undefined outer value for an absent branch, whichever optic produced it.
C25_Associative ==
  (op \in {"get", "set"} /\ ChainLen(optic) = 3 /\ optic.tag # "iso"
     /\ ChainDefined(Flatten(optic), pre)) =>
    LET l == LeftNested(Flatten(optic))
        r == RightNested(Flatten(optic))
    IN /\ optic \in {l, r}
       /\ get(l, pre) = get(r, pre)
       /\ op = "get" => out = get(l, pre) /\ out = get(r, pre)
       /\ op = "set" => out = set(l, arg, pre) /\ out = set(r, arg, pre)

\* a literal or function has been set through a(bc) with a Prism last and
\* an Iso in the middle of the chain, and (ab)c gives the same result, which
\* differs from the source
C25_Witness ==
  /\ IsSet /\ ChainLen(optic) = 3 /\ optic.tag # "iso"
  /\ ChainDefined(Flatten(optic), pre)
  /\ optic = RightNested(Flatten(optic))
  /\ optic # LeftNested(Flatten(optic))
  /\ Flatten(optic)[3].mk = "of"
  /\ Flatten(optic)[2].mk = "Iso"
  /\ out \notin {ERR, pre}
  /\ out = set(LeftNested(Flatten(optic)), arg, pre)

\* C26: last write wins and idempotence for a prop lens and for Lens . Lens
\* compositions of prop lenses: after set(v1)(s) with a literal v1, setting any
\* literal v2 gives what set(v2)(s) gives, and setting v1 again changes
\* nothing; when set(v1)(s) throws, set(v2)(s) throws as well.
C26_LastWriteWins ==
  (IsSetLiteral /\ IsPropChain(optic)) =>
    /\ out = ERR => \A v2 \in Literals(ty.tgt) : set(optic, v2, pre) = ERR
    /\ out # ERR =>
         /\ \A v2 \in Literals(ty.tgt) : set(optic, v2, out) = set(optic, v2, pre)
         /\ set(optic, arg, out) = out

\* a second literal has been written through a Lens . Lens chain over a first
\* one, and a third would again give what it gives on the source
C26_Witness ==
  /\ IsSetLiteral /\ IsPropChain(optic) /\ ChainLen(optic) >= 2
  /\ pre # s0 /\ out \notin {ERR, pre}
  /\ Present(get(optic, pre)) /\ get(optic, pre) # get(optic, s0)
  /\ \E v2 \in Literals(ty.tgt) :
       /\ v2 \notin {arg, UNDEF}
       /\ set(optic, v2, out) = set(optic, v2, pre)
       /\ set(optic, v2, out) # out

\* x has the own property key
HasKey(x, key) == (x.t = "object" /\ key \in DOMAIN x.f) \/ InRange(x, key)

\* every key of the chain of prop lenses ps is present at its level of x
RECURSIVE KeysPresent(_, _)
KeysPresent(ps, x) ==
  \/ ps = <<>>
  \/ /\ HasKey(x, Head(ps).key)
     /\ KeysPresent(Tail(ps), GetProp(x, Head(ps).key))

\* C27 (as stated): get-set law: for a prop lens on a key present in s, and
\* for Lens . Lens compositions of such lenses, writing back the current value,
\* set(get(s))(s), and setting the identity updater both return a value equal
\* to s.
C27_AsStated ==
  (IsSet /\ IsPropChain(optic) /\ KeysPresent(Flatten(optic), pre)
     /\ (arg = get(optic, pre) \/ arg = Fn("identity", UNDEF))) =>
    out = pre

\* the own keys of a record or array x
Keys(x) ==
  IF x.t = "array"
  THEN {IdxKey[i] : i \in {j \in 1..Len(x.a) : x.a[j] # HOLE}} \cup DOMAIN x.p
  ELSE DOMAIN x.f

\* y is a record with the keys of x and key, key bound to v, the rest as in x
RecordWith(x, key, v, y) ==
  /\ y.t = "object"
  /\ DOMAIN y.f = Keys(x) \cup {key}
  /\ y.f[key] = v
  /\ \A k \in Keys(x) \ {key} : y.f[k] = GetProp(x, k)

\* C28: prop(K) on a source that lacks key K: get returns undefined and throws
\* nothing; set(v) returns a record with the keys of s and K, K bound to v and
\* the other fields unchanged; set(f) calls f once, with undefined, and binds
\* K to what it returns; nothing checks that K exists.
C28_MissingKey ==
  (optic.mk = "prop" /\ pre.t \in {"object", "array"} /\ ~HasKey(pre, optic.key)) =>
    /\ op = "get" => out = UNDEF
    /\ IsSetLiteral => RecordWith(pre, optic.key, arg, out)
    /\ IsSetFunction =>
         /\ Cardinality(Calls(log, {"updater"})) = 1
         /\ \A i \in Calls(log, {"updater"}) : log[i].a = UNDEF
         /\ RecordWith(pre, optic.key, Apply(arg, UNDEF), out)

\* a function has been set through prop(K) on a record that has other fields
\* but not K: K now holds what the function returns on undefined
C28_Witness ==
  /\ IsSetFunction /\ optic.mk = "prop"
  /\ pre.t = "object" /\ DOMAIN pre.f # {} /\ optic.key \notin DOMAIN pre.f
  /\ out.t = "object" /\ optic.key \in DOMAIN out.f
  /\ out.f[optic.key] = Apply(arg, UNDEF)
  /\ Present(out.f[optic.key])
  /\ \A k \in DOMAIN pre.f : out.f[k] = pre.f[k]

\* a Prism . Iso composition whose outer is a field-spread Prism.of prism
IsSpreadPrismIso(o) ==
  IsPrismIso(o) /\ o.outer.mk = "of" /\ o.outer.prism.set = "spread"

\* one call set(arg')(s) that returns, through a Prism . Iso over a
\* field-spread prism, as the claim has it: on an absent outer branch a
\* function leaves the source as it is and get absent, a literal b makes get
\* return inner.to(inner.from(b)); on a present outer branch a function f makes
\* get return inner.to(inner.from(f(get(s)))), and no set of a function or of
\* a defined literal makes get absent
C29_StepAsStated ==
  (IsSpreadPrismIso(optic) /\ optic' = optic /\ op' = "set" /\ pre' = s
     /\ out' # ERR) =>
    LET absent == get(optic.outer, s) = UNDEF
        f == IsFunction(arg')
    IN /\ s' = out'
       /\ (absent /\ f) =>
            /\ s' = s
            /\ get(optic, s') = UNDEF
            /\ s = s0 => s' = s0
       /\ (absent /\ ~f) =>
            get(optic, s') = to(optic.inner, from(optic.inner, arg'))
       /\ (~absent /\ f) =>
            get(optic, s') = to(optic.inner, from(optic.inner, Apply(arg', get(optic, s))))
       /\ (~absent /\ (f \/ arg' # UNDEF)) => get(optic, s') # UNDEF

\* the value a set with update b hands to inner.from, on the source x
NextB(o, b, x) ==
  IF IsFunction(b) THEN Apply(b, to(o.inner, get(o.outer, x))) ELSE b

\* one call set(arg')(s) that returns, through a Prism . Iso over a
\* field-spread prism: a function on an absent outer branch leaves the source
\* as it is and get absent; every other set writes inner.from of the new
\* value (the literal, or f(get(s))) into the outer branch: where that is a
\* defined value the branch is present afterwards and get returns inner.to of
\* it, and where it is undefined the branch is absent afterwards
C29_Step ==
  (IsSpreadPrismIso(optic) /\ optic' = optic /\ op' = "set" /\ pre' = s
     /\ out' # ERR) =>
    LET absent == get(optic.outer, s) = UNDEF
        f == IsFunction(arg')
    IN /\ s' = out'
       /\ (absent /\ f) =>
            /\ s' = s
            /\ get(optic, s') = UNDEF
            /\ s = s0 => s' = s0
       /\ ~(absent /\ f) =>
            /\ get(optic.outer, s') = from(optic.inner, NextB(optic, arg', s))
            /\ Present(from(optic.inner, NextB(optic, arg', s))) =>
                 get(optic, s') = to(optic.inner, from(optic.inner, NextB(optic, arg', s)))
            /\ from(optic.inner, NextB(optic, arg', s)) = UNDEF =>
                 get(optic, s') = UNDEF
            /\ (~absent /\ f) => NextB(optic, arg', s) = Apply(arg', get(optic, s))


====
